---- MODULE Spec2Model ----
(***************************************************************************)
(* A model of the two-stage analysis / validation pipeline of the news     *)
(* analyzer: LLMAnalyzer (src/llm_analyzer.py) and LLMValidator            *)
(* (src/llm_validator.py).                                                 *)
(*                                                                         *)
(* Python values are tagged records [t |-> type, v |-> payload]; a dict is *)
(* a function from its keys to values; a str is a TLA+ string, taken apart *)
(* with Len and SubSeq and put together with \o.                           *)
(***************************************************************************)
EXTENDS Integers, Sequences, FiniteSets, TLC

\* ------------------------------------------------------------------------
\* Bounds of the model
\* ------------------------------------------------------------------------

\* longest article list handed to a batch call
MaxArticles == 2

\* largest retry_count a direct call is made with
MaxRetry == 3

\* the most raw articles the news service answers a fetch with
MaxFetched == 3

\* ------------------------------------------------------------------------
\* Python values
\* ------------------------------------------------------------------------

StrV(s) == [t |-> "str", v |-> s]

IntV(n) == [t |-> "int", v |-> n]

BoolV(b) == [t |-> "bool", v |-> b]

NoneV == [t |-> "none", v |-> 0]

DictV(d) == [t |-> "dict", v |-> d]

ListV(l) == [t |-> "list", v |-> l]

\* the dict {}
EmptyDict == [k \in {} |-> NoneV]

\* d.get(k, default)
Get(d, k, default) == IF k \in DOMAIN d THEN d[k] ELSE default

\* d with d[k] = x
Put(d, k, x) == [j \in (DOMAIN d) \cup {k} |-> IF j = k THEN x ELSE d[j]]

\* ------------------------------------------------------------------------
\* str operations
\* ------------------------------------------------------------------------

CharAt(s, i) == SubSeq(s, i, i)

UpperAlphabet == "ABCDEFGHIJKLMNOPQRSTUVWXYZ"

LowerAlphabet == "abcdefghijklmnopqrstuvwxyz"

\* str.lower() on one character
LowerChar(c) ==
    IF \E i \in 1..Len(UpperAlphabet) : CharAt(UpperAlphabet, i) = c
    THEN CharAt(LowerAlphabet, CHOOSE i \in 1..Len(UpperAlphabet) : CharAt(UpperAlphabet, i) = c)
    ELSE c

RECURSIVE Lower(_)
\* str.lower()
Lower(s) ==
    IF Len(s) = 0 THEN s
    ELSE IF Len(s) = 1 THEN LowerChar(s)
    ELSE LET half == Len(s) \div 2
         IN  Lower(SubSeq(s, 1, half)) \o Lower(SubSeq(s, half + 1, Len(s)))

IsSpace(c) == c \in {" ", "\t", "\n", "\r"}

RECURSIVE LStrip(_)
LStrip(s) ==
    IF Len(s) > 0 /\ IsSpace(CharAt(s, 1)) THEN LStrip(SubSeq(s, 2, Len(s))) ELSE s

RECURSIVE RStrip(_)
RStrip(s) ==
    IF Len(s) > 0 /\ IsSpace(CharAt(s, Len(s))) THEN RStrip(SubSeq(s, 1, Len(s) - 1)) ELSE s

\* str.strip()
Strip(s) == RStrip(LStrip(s))

\* str.startswith(p)
StartsWith(s, p) == Len(s) >= Len(p) /\ SubSeq(s, 1, Len(p)) = p

\* p in s, for two strs
Contains(s, p) == \E i \in 1..(Len(s) - Len(p) + 1) : SubSeq(s, i, i + Len(p) - 1) = p

\* s[:n]
Prefix(s, n) == SubSeq(s, 1, IF Len(s) < n THEN Len(s) ELSE n)

DigitChars == "0123456789"

RECURSIVE IntStr(_)
\* str(n) for an int n >= 0
IntStr(n) ==
    IF n < 10 THEN CharAt(DigitChars, n + 1)
    ELSE IntStr(n \div 10) \o CharAt(DigitChars, (n % 10) + 1)

\* str(x) of a value that is a str or an int
PyStr(x) == IF x.t = "int" THEN IntStr(x.v) ELSE x.v

RECURSIVE Pow2(_)
\* 2 ** n
Pow2(n) == IF n = 0 THEN 1 ELSE 2 * Pow2(n - 1)

RECURSIVE Split(_, _)
\* s.split(sep), sep one character
Split(s, sep) ==
    IF \E i \in 1..Len(s) : CharAt(s, i) = sep
    THEN LET i == CHOOSE j \in 1..Len(s) :
                      /\ CharAt(s, j) = sep
                      /\ \A k \in 1..(j - 1) : CharAt(s, k) # sep
         IN  <<SubSeq(s, 1, i - 1)>> \o Split(SubSeq(s, i + 1, Len(s)), sep)
    ELSE <<s>>

RECURSIVE Join(_, _)
\* sep.join(parts)
Join(parts, sep) ==
    IF Len(parts) = 0 THEN ""
    ELSE IF Len(parts) = 1 THEN parts[1]
    ELSE parts[1] \o sep \o Join(Tail(parts), sep)

\* ------------------------------------------------------------------------
\* Exceptions and results of calls
\* ------------------------------------------------------------------------

\* an exception object; str(e) is its msg
Exc(type, msg) == [type |-> type, msg |-> msg]

Return(x) == [kind |-> "return", what |-> x]

Raise(type, msg) == [kind |-> "raise", what |-> Exc(type, msg)]

\* no call has ended. (Results are told apart by their kind, never compared
\* whole: their payloads are of different shapes.)
Pending == [kind |-> "none", what |-> NoneV]

\* the exception classes that derive from Exception (all that occur here)
ExceptionTypes ==
    {"ValueError", "TypeError", "AttributeError", "KeyError", "JSONDecodeError",
     "LLMAnalyzerError", "LLMValidatorError", "Timeout", "RequestException",
     "APIError"}

\* ------------------------------------------------------------------------
\* JSON text: json.dumps as rendering, json.loads as its inverse on the
\* documents of the model
\* ------------------------------------------------------------------------

\* the order in which the keys of an object are written
KeyOrder ==
    <<"gist", "sentiment", "tone", "is_valid", "result", "reasoning", "corrections">>

RECURSIVE JsonDumps(_)
RECURSIVE DumpItems(_, _)
RECURSIVE DumpList(_)

\* the members of object d whose keys are KeyOrder[i..], comma separated
DumpItems(d, i) ==
    IF i > Len(KeyOrder) THEN ""
    ELSE IF KeyOrder[i] \notin DOMAIN d THEN DumpItems(d, i + 1)
    ELSE LET rest == DumpItems(d, i + 1)
         IN  "\"" \o KeyOrder[i] \o "\": " \o JsonDumps(d[KeyOrder[i]])
             \o (IF rest = "" THEN "" ELSE ", " \o rest)

DumpList(l) ==
    IF Len(l) = 0 THEN ""
    ELSE JsonDumps(l[1]) \o (IF Len(l) = 1 THEN "" ELSE ", " \o DumpList(Tail(l)))

\* the JSON text of a value
JsonDumps(x) ==
    CASE x.t = "str"  -> "\"" \o x.v \o "\""
      [] x.t = "int"  -> IntStr(x.v)
      [] x.t = "bool" -> IF x.v THEN "true" ELSE "false"
      [] x.t = "none" -> "null"
      [] x.t = "list" -> "[" \o DumpList(x.v) \o "]"
      [] x.t = "dict" -> "{" \o DumpItems(x.v, 1) \o "}"

\* values the model #1 may give the three fields of its answer
GistValues == {StrV("Budget bill passed."), StrV(" Markets rally. "), NoneV}

SentimentValues ==
    {StrV("positive"), StrV(" Negative"), StrV("NEUTRAL "), StrV("very_positive"), NoneV}

ToneValues ==
    {StrV("urgent"), StrV("Analytical "), StrV("CRITICAL"), StrV("sarcastic"), IntV(7)}

AnalysisKeys == {"gist", "sentiment", "tone"}

AnalysisFieldValues(k) ==
    CASE k = "gist" -> GistValues
      [] k = "sentiment" -> SentimentValues
      [] k = "tone" -> ToneValues

\* the JSON objects model #1 may answer with: any subset of the three keys
AnalysisObjects ==
    UNION { { DictV(f) : f \in { g \in [K -> GistValues \cup SentimentValues \cup ToneValues] :
                                   \A k \in K : g[k] \in AnalysisFieldValues(k) } }
            : K \in SUBSET AnalysisKeys }

\* values the model #2 may give the keys of its verdict
IsValidValues == {BoolV(TRUE), BoolV(FALSE), StrV("false"), NoneV}

ResultValues == {StrV("x Issues Found")}

ReasoningValues == {StrV("The sentiment is wrong.")}

CorrectionsValues == {DictV(EmptyDict), DictV([sentiment |-> StrV("negative")])}

ValidationKeys == {"is_valid", "result", "reasoning", "corrections"}

ValidationFieldValues(k) ==
    CASE k = "is_valid" -> IsValidValues
      [] k = "result" -> ResultValues
      [] k = "reasoning" -> ReasoningValues
      [] k = "corrections" -> CorrectionsValues

\* the JSON objects model #2 may answer with: any subset of the four keys
ValidationObjects ==
    UNION { { DictV(f) : f \in { g \in [K -> IsValidValues \cup ResultValues
                                              \cup ReasoningValues \cup CorrectionsValues] :
                                   \A k \in K : g[k] \in ValidationFieldValues(k) } }
            : K \in SUBSET ValidationKeys }

\* JSON documents that are not objects
NonObjects ==
    { ListV(<<StrV("gist"), StrV("sentiment"), StrV("tone")>>), ListV(<<>>),
      ListV(<<StrV("is_valid"), StrV("result"), StrV("reasoning"), StrV("corrections")>>),
      StrV("gist sentiment tone"), StrV("is_valid"), IntV(5), BoolV(TRUE), NoneV }

\* every document whose JSON text occurs in the model
JsonUniverse == AnalysisObjects \cup ValidationObjects \cup NonObjects

\* the JSON text of each document
JsonText == [d \in JsonUniverse |-> JsonDumps(d)]

\* the document of each JSON text
JsonDocument ==
    [s \in {JsonText[d] : d \in JsonUniverse} |->
        CHOOSE d \in JsonUniverse : JsonText[d] = s]

\* json.loads(s): the document whose text s is, surrounding whitespace
\* ignored; ok = FALSE stands for json.JSONDecodeError
JsonLoads(s) ==
    IF Strip(s) \in DOMAIN JsonDocument
    THEN [ok |-> TRUE, doc |-> JsonDocument[Strip(s)]]
    ELSE [ok |-> FALSE, doc |-> NoneV]

\* str(e) of a json.JSONDecodeError
JsonErrorText == "Expecting value: line 1 column 1 (char 0)"

\* type(x).__name__
TypeName(x) ==
    CASE x.t = "none" -> "NoneType"
      [] x.t = "int"  -> "int"
      [] x.t = "bool" -> "bool"
      [] x.t = "str"  -> "str"
      [] x.t = "list" -> "list"
      [] x.t = "dict" -> "dict"

\* k in x, for a str k; meaningful when x is a dict, a list or a str
PyIn(k, x) ==
    CASE x.t = "dict" -> k \in DOMAIN x.v
      [] x.t = "list" -> \E i \in 1..Len(x.v) : x.v[i] = StrV(k)
      [] x.t = "str"  -> Contains(x.v, k)
      [] OTHER -> FALSE

\* ------------------------------------------------------------------------
\* LLMAnalyzer._parse_response
\* ------------------------------------------------------------------------

\* the marker of a fenced code block: three backquotes in the source; the
\* apostrophe stands for the backquote, which a TLA+ string cannot hold
FenceMark == "'''"

required_fields == <<"gist", "sentiment", "tone">>

valid_sentiments == {"positive", "negative", "neutral"}

valid_tones ==
    {"urgent", "analytical", "satirical", "balanced", "critical",
     "celebratory", "alarming", "informative"}

\* an out-of-vocabulary sentiment is kept as it is
NormalizeSentimentNoDefault(raw) == Strip(Lower(raw))

\* lines 181-185
NormalizeSentiment(raw) ==
    LET sentiment == Strip(Lower(raw))
    IN  IF sentiment \notin valid_sentiments THEN "neutral" ELSE sentiment

\* the tone is trimmed but not lower-cased
NormalizeToneNoLower(raw) ==
    LET tone == Strip(raw)
    IN  IF tone \notin valid_tones THEN "informative" ELSE tone

\* lines 188-193
NormalizeTone(raw) ==
    LET tone == Strip(Lower(raw))
    IN  IF tone \notin valid_tones THEN "informative" ELSE tone

\* the text handed to json.loads: lines 164-169
CleanResponse(response_text) ==
    LET stripped == Strip(response_text)
        lines == Split(stripped, "\n")
    IN  IF StartsWith(stripped, FenceMark)
        THEN Join(SubSeq(lines, 2, Len(lines) - 1), "\n")
        ELSE stripped

\* str(e) of the first exception lines 175-199 raise on the loaded document,
\* "" when they raise none
FieldFailure(analysis) ==
    IF analysis.t \notin {"dict", "list", "str"}
    THEN "argument of type '" \o TypeName(analysis) \o "' is not iterable"
    ELSE IF \E i \in 1..Len(required_fields) : ~PyIn(required_fields[i], analysis)
    THEN LET i == CHOOSE j \in 1..Len(required_fields) :
                      /\ ~PyIn(required_fields[j], analysis)
                      /\ \A k \in 1..(j - 1) : PyIn(required_fields[k], analysis)
         IN  "Missing required field: " \o required_fields[i]
    ELSE IF analysis.t = "list" THEN "list indices must be integers or slices, not str"
    ELSE IF analysis.t = "str" THEN "string indices must be integers, not 'str'"
    ELSE IF analysis.v["sentiment"].t # "str"
    THEN "'" \o TypeName(analysis.v["sentiment"]) \o "' object has no attribute 'lower'"
    ELSE IF analysis.v["tone"].t # "str"
    THEN "'" \o TypeName(analysis.v["tone"]) \o "' object has no attribute 'lower'"
    ELSE IF analysis.v["gist"].t # "str"
    THEN "'" \o TypeName(analysis.v["gist"]) \o "' object has no attribute 'strip'"
    ELSE ""

\* text that is no JSON is resolved by defaults instead of an error
parse_response_with_fallback(response_text) ==
    LET loaded == JsonLoads(CleanResponse(response_text))
        failure == FieldFailure(loaded.doc)
    IN  IF ~loaded.ok
        THEN Return([gist |-> StrV(Prefix(CleanResponse(response_text), 200)),
                     sentiment |-> StrV("neutral"),
                     tone |-> StrV("informative")])
        ELSE IF failure # ""
        THEN Raise("LLMAnalyzerError", "Failed to parse response: " \o failure)
        ELSE Return([gist |-> StrV(Strip(loaded.doc.v["gist"].v)),
                     sentiment |-> StrV(NormalizeSentiment(loaded.doc.v["sentiment"].v)),
                     tone |-> StrV(NormalizeTone(loaded.doc.v["tone"].v))])

\* _parse_response(response_text, article_id): the parsed dict returned, or
\* the LLMAnalyzerError raised
parse_response(response_text) ==
    LET loaded == JsonLoads(CleanResponse(response_text))
        failure == FieldFailure(loaded.doc)
    IN  IF ~loaded.ok
        THEN Raise("LLMAnalyzerError", "Invalid JSON response: " \o JsonErrorText)
        ELSE IF failure # ""
        THEN Raise("LLMAnalyzerError", "Failed to parse response: " \o failure)
        ELSE Return([gist |-> StrV(Strip(loaded.doc.v["gist"].v)),
                     sentiment |-> StrV(NormalizeSentiment(loaded.doc.v["sentiment"].v)),
                     tone |-> StrV(NormalizeTone(loaded.doc.v["tone"].v))])

\* ------------------------------------------------------------------------
\* Inputs: articles and the answers of model #1
\* ------------------------------------------------------------------------

\* 61 characters
LongText == "Parliament passed the annual budget bill after a long debate."

\* exactly 30 characters once trimmed
Text30 == "  Markets rallied for three days "

\* exactly 29 characters once trimmed, more than 30 before
Text29 == "     Rain is expected again Sunday     "

ShortText == "Too short"

Article(id, title, full_text) ==
    [id |-> IntV(id), title |-> StrV(title), full_text |-> StrV(full_text)]

\* articles a single analyze_article call is made with
ArticleSamples ==
    { Article(1, "Budget passed", LongText),
      Article(2, "Markets", Text30),
      Article(3, "Weather", Text29),
      Article(2, "Note", ShortText),
      [id |-> IntV(3), title |-> StrV("No text")],
      [title |-> StrV("No id"), full_text |-> StrV(LongText)],
      [id |-> IntV(1), title |-> StrV("Null text"), full_text |-> NoneV],
      EmptyDict }

\* articles the lists handed to analyze_batch are made of
BatchArticleSamples ==
    { Article(1, "Budget passed", LongText),
      Article(2, "Markets", Text30),
      Article(3, "Weather", Text29),
      EmptyDict }

\* every sequence over S of length 0..n
SeqUpTo(S, n) == UNION { [1..k -> S] : k \in 0..n }

\* an answer of model #1 to generate_content: an exception, or a response
\* whose .text is the given str
ModelRaises(msg) == [kind |-> "raise", text |-> "", exc |-> Exc("APIError", msg)]

ModelText(body) == [kind |-> "text", text |-> body, exc |-> Exc("", "")]

\* the plain in-vocabulary values of the three fields
PlainValues == {StrV("Budget bill passed."), StrV("positive"), StrV("urgent")}

\* the answers to a single analyze_article call: every failure kind, fenced
\* and bare JSON, and each object of AnalysisObjects with at most one field
\* missing or not plain
AnalyzerReplies ==
    { ModelRaises("503 service unavailable"), ModelText(""),
      ModelText("I cannot answer that."), ModelText("[]"), ModelText("null"),
      ModelText("'''json\n" \o JsonText[DictV([gist |-> StrV("Budget bill passed."),
                                              sentiment |-> StrV(" Negative"),
                                              tone |-> StrV("CRITICAL")])] \o "\n'''") }
    \cup { ModelText(JsonText[d]) : d \in
            { o \in AnalysisObjects :
                Cardinality({k \in AnalysisKeys :
                    k \notin DOMAIN o.v \/ o.v[k] \notin PlainValues}) <= 1 } }

\* the answers inside an analyze_batch call
BatchAnalyzerReplies ==
    { ModelRaises("503 service unavailable"), ModelText(""),
      ModelText("I cannot answer that."),
      ModelText(JsonText[DictV([gist |-> StrV(" Markets rally. "),
                                sentiment |-> StrV("NEUTRAL "),
                                tone |-> StrV("Analytical ")])]),
      ModelText(JsonText[DictV([gist |-> StrV("Budget bill passed."),
                                sentiment |-> StrV("very_positive"),
                                tone |-> StrV("sarcastic")])]) }

\* the answers of model #1 inside a pipeline run
RunAnalyzerReplies ==
    { ModelRaises("503 service unavailable"),
      ModelText(JsonText[DictV([gist |-> StrV("Budget bill passed."),
                                sentiment |-> StrV("positive"),
                                tone |-> StrV("urgent")])]),
      ModelText(JsonText[DictV([gist |-> StrV(" Markets rally. "),
                                sentiment |-> StrV(" Negative"),
                                tone |-> StrV("CRITICAL")])]) }

\* ------------------------------------------------------------------------
\* State
\* ------------------------------------------------------------------------

VARIABLES
    op,           \* the call under way
    articles,     \* its articles argument (one article for a single call)
    analyses,     \* its analyses argument (validator calls)
    retry_count,  \* the retry_count of the single-item call
    text,         \* the raw text argument of a parser call
    vtext,        \* the validation_text argument of a _parse_validation call
    run,          \* a pipeline run: its stage and what it has produced
    fetch,        \* a fetch_articles call: its arguments and how far it has got
    idx,          \* batch loop: position of the item in hand, 1-based
    results,      \* batch loop: the results list
    delays,       \* batch loop: the positions after which the delay was slept
    attempt,      \* retry loop: the loop variable
    ipc,          \* single-item call: "idle", "loop", "returned", "raised"
    ival,         \* single-item call: what it returned or raised
    ireq,         \* single-item call: external requests issued so far
    islept,       \* single-item call: the sleeps made so far, in order
    last,         \* single-item call: the last attempt, how it failed, its sleep
    calls,        \* external requests issued since the call began
    outcome       \* what the call returned or raised

vars ==
    <<op, articles, analyses, retry_count, text, vtext, run, fetch, idx, results,
      delays, attempt, ipc, ival, ireq, islept, last, calls, outcome>>

\* no pipeline run is under way
NoRun == [stage |-> "none"]

\* no attempt made yet
NoAttempt == [attempt |-> -1, fail |-> "none", slept |-> 0]

\* the default retry_count of analyze_article and of validate_analysis
DefaultRetryCount == 3

\* the delay main.py hands to analyze_batch (and its default)
AnalyzeDelay == 1

\* the article the single-item call is about
CurArticle == articles[idx]

\* ------------------------------------------------------------------------
\* LLMAnalyzer.analyze_article
\* ------------------------------------------------------------------------

\* the short-text test lets a text of 29 characters through
analyze_preconditions_off_by_one(article) ==
    IF article = EmptyDict \/ "full_text" \notin DOMAIN article
    THEN Raise("ValueError", "Article must contain 'full_text' field")
    ELSE IF article["full_text"].t # "str"
    THEN Raise("AttributeError",
               "'" \o TypeName(article["full_text"]) \o "' object has no attribute 'strip'")
    ELSE IF Len(Strip(article["full_text"].v)) < 29
    THEN Raise("ValueError",
               "Article " \o PyStr(Get(article, "id", StrV("unknown")))
               \o " text too short for analysis")
    ELSE Pending

\* lines 63-72: the exception raised before the retry loop, Pending if none
analyze_preconditions(article) ==
    IF article = EmptyDict \/ "full_text" \notin DOMAIN article
    THEN Raise("ValueError", "Article must contain 'full_text' field")
    ELSE IF article["full_text"].t # "str"
    THEN Raise("AttributeError",
               "'" \o TypeName(article["full_text"]) \o "' object has no attribute 'strip'")
    ELSE IF Len(Strip(article["full_text"].v)) < 30
    THEN Raise("ValueError",
               "Article " \o PyStr(Get(article, "id", StrV("unknown")))
               \o " text too short for analysis")
    ELSE Pending

\* lines 97-105: the dict analyze_article returns
analysis_record(article, analysis, response_text) ==
    [article_id |-> Get(article, "id", StrV("unknown")),
     title |-> Get(article, "title", StrV("No title")),
     gist |-> analysis["gist"],
     sentiment |-> analysis["sentiment"],
     tone |-> analysis["tone"],
     model_used |-> StrV("gemini-2.5-flash"),
     raw_response |-> StrV(response_text)]

\* the last cause is raised again as it is, with no wrapping
analyze_failed_unwrapped(article, count, e) == Raise(e.type, e.msg)

\* line 112
analyze_failed(article, count, e) ==
    Raise("LLMAnalyzerError",
          "Failed to analyze article " \o PyStr(Get(article, "id", StrV("unknown")))
          \o " after " \o IntStr(count) \o " attempts: " \o e.msg)

\* the last pass sleeps and goes on as the others do
analyze_except_no_last_pass(article, count, i, kind, e) ==
    IF i < count
    THEN [fail |-> kind, slept |-> Pow2(i), res |-> Pending]
    ELSE [fail |-> kind, slept |-> 0, res |-> analyze_failed(article, count, e)]

\* the sleep after a failed pass is one second whatever the pass
analyze_except_fixed_sleep(article, count, i, kind, e) ==
    IF i < count - 1
    THEN [fail |-> kind, slept |-> 1, res |-> Pending]
    ELSE [fail |-> kind, slept |-> 0, res |-> analyze_failed(article, count, e)]

\* lines 107-112: the except clause of pass i, on exception e of kind `kind`
analyze_except(article, count, i, kind, e) ==
    IF i < count - 1
    THEN [fail |-> kind, slept |-> Pow2(i), res |-> Pending]
    ELSE [fail |-> kind, slept |-> 0, res |-> analyze_failed(article, count, e)]

\* a response that does not parse ends the call at once, whatever the pass
analyze_attempt_parse_fatal(article, count, i, reply) ==
    LET parsed == parse_response(reply.text)
    IN  IF reply.kind = "raise"
        THEN analyze_except(article, count, i, "exception", reply.exc)
        ELSE IF reply.text = ""
        THEN IF i < count - 1
             THEN [fail |-> "empty", slept |-> 1, res |-> Pending]
             ELSE analyze_except(article, count, i, "empty",
                                 Exc("LLMAnalyzerError", "Response was empty or blocked"))
        ELSE IF parsed.kind = "raise"
        THEN [fail |-> "parse", slept |-> 0, res |-> analyze_failed(article, count, parsed.what)]
        ELSE [fail |-> "none", slept |-> 0,
              res |-> Return(analysis_record(article, parsed.what, reply.text))]

\* one pass of the retry loop (lines 81-112) on the answer `reply`: how the
\* attempt failed, the seconds slept after it, and what the call returns or
\* raises (Pending: the loop goes on)
analyze_attempt(article, count, i, reply) ==
    LET parsed == parse_response(reply.text)
    IN  IF reply.kind = "raise"
        THEN analyze_except(article, count, i, "exception", reply.exc)
        ELSE IF reply.text = ""
        THEN IF i < count - 1
             THEN [fail |-> "empty", slept |-> 1, res |-> Pending]
             ELSE analyze_except(article, count, i, "empty",
                                 Exc("LLMAnalyzerError", "Response was empty or blocked"))
        ELSE IF parsed.kind = "raise"
        THEN analyze_except(article, count, i, "parse", parsed.what)
        ELSE [fail |-> "none", slept |-> 0,
              res |-> Return(analysis_record(article, parsed.what, reply.text))]

\* the pass counter is not started afresh: item k starts at pass k - 1
AnalyzeEnterCarriesPass ==
    /\ op \in {"analyze_article", "analyze_batch"}
    /\ ipc = "idle"
    /\ outcome.kind = "none"
    /\ idx <= Len(articles)
    /\ attempt' = idx - 1
    /\ ireq' = 0
    /\ islept' = <<>>
    /\ last' = NoAttempt
    /\ IF analyze_preconditions(CurArticle).kind = "none"
       THEN ipc' = "loop" /\ ival' = Pending
       ELSE ipc' = "raised" /\ ival' = analyze_preconditions(CurArticle)
    /\ UNCHANGED <<op, articles, analyses, retry_count, text, vtext, run, fetch, idx, results, delays,
                   calls, outcome>>

\* analyze_article is entered for the article in hand: lines 63-77
AnalyzeEnter ==
    /\ op \in {"analyze_article", "analyze_batch"}
    /\ ipc = "idle"
    /\ outcome.kind = "none"
    /\ idx <= Len(articles)
    /\ attempt' = 0
    /\ ireq' = 0
    /\ islept' = <<>>
    /\ last' = NoAttempt
    /\ IF analyze_preconditions(CurArticle).kind = "none"
       THEN ipc' = "loop" /\ ival' = Pending
       ELSE ipc' = "raised" /\ ival' = analyze_preconditions(CurArticle)
    /\ UNCHANGED <<op, articles, analyses, retry_count, text, vtext, run, fetch, idx, results, delays,
                   calls, outcome>>

\* a pass that failed is not counted: the loop goes on until a pass succeeds
AnalyzeAttemptUntilSuccess ==
    /\ op \in {"analyze_article", "analyze_batch"}
    /\ ipc = "loop"
    /\ attempt < retry_count
    /\ \E reply \in (CASE run.stage # "none" -> RunAnalyzerReplies
                       [] op = "analyze_batch" -> BatchAnalyzerReplies
                       [] OTHER -> AnalyzerReplies) :
         \E r \in {analyze_attempt(CurArticle, retry_count, 0, reply)} :
             /\ last' = [attempt |-> attempt, fail |-> r.fail, slept |-> r.slept]
             /\ islept' = IF r.slept > 0 THEN Append(islept, r.slept) ELSE islept
             /\ ival' = r.res
             /\ ipc' = CASE r.res.kind = "return" -> "returned"
                         [] r.res.kind = "raise" -> "raised"
                         [] OTHER -> "loop"
             /\ attempt' = 0
    /\ ireq' = ireq + 1
    /\ calls' = calls + 1
    /\ UNCHANGED <<op, articles, analyses, retry_count, text, vtext, run, fetch, idx, results, delays,
                   outcome>>

\* one pass of the retry loop: a request to model #1 and all that follows
\* from its answer
AnalyzeAttempt ==
    /\ op \in {"analyze_article", "analyze_batch"}
    /\ ipc = "loop"
    /\ attempt < retry_count
    /\ \E reply \in (CASE run.stage # "none" -> RunAnalyzerReplies
                       [] op = "analyze_batch" -> BatchAnalyzerReplies
                       [] OTHER -> AnalyzerReplies) :
         \E r \in {analyze_attempt(CurArticle, retry_count, attempt, reply)} :
             /\ last' = [attempt |-> attempt, fail |-> r.fail, slept |-> r.slept]
             /\ islept' = IF r.slept > 0 THEN Append(islept, r.slept) ELSE islept
             /\ ival' = r.res
             /\ ipc' = CASE r.res.kind = "return" -> "returned"
                         [] r.res.kind = "raise" -> "raised"
                         [] OTHER -> "loop"
             /\ attempt' = IF r.res.kind = "none" THEN attempt + 1 ELSE attempt
    /\ ireq' = ireq + 1
    /\ calls' = calls + 1
    /\ UNCHANGED <<op, articles, analyses, retry_count, text, vtext, run, fetch, idx, results, delays,
                   outcome>>

\* the retry loop ends without a return or a raise: the function falls off its
\* end and returns None
AnalyzeFallThrough ==
    /\ op \in {"analyze_article", "analyze_batch"}
    /\ ipc = "loop"
    /\ attempt >= retry_count
    /\ ipc' = "returned"
    /\ ival' = Return(NoneV)
    /\ UNCHANGED <<op, articles, analyses, retry_count, text, vtext, run, fetch, idx, results, delays,
                   attempt, ireq, islept, last, calls, outcome>>

\* a single call hands its result or its exception to its caller
SingleCallEnds ==
    /\ op \in {"analyze_article", "validate_analysis"}
    /\ ipc \in {"returned", "raised"}
    /\ outcome.kind = "none"
    /\ outcome' = ival
    /\ UNCHANGED <<op, articles, analyses, retry_count, text, vtext, run, fetch, idx, results, delays,
                   attempt, ipc, ival, ireq, islept, last, calls>>

\* ------------------------------------------------------------------------
\* LLMAnalyzer.analyze_batch
\* ------------------------------------------------------------------------

\* the entry for a failed article has the defaults of main.py's report
analysis_sentinel_report_defaults(article, e) ==
    [article_id |-> Get(article, "id", StrV("unknown")),
     title |-> Get(article, "title", StrV("Unknown")),
     error |-> StrV(e.msg),
     gist |-> StrV("N/A"),
     sentiment |-> StrV("N/A"),
     tone |-> StrV("N/A")]

\* the entry for a failed article carries the error and nothing of an analysis
analysis_sentinel_bare(article, e) ==
    [article_id |-> Get(article, "id", StrV("unknown")),
     title |-> Get(article, "title", StrV("Unknown")),
     error |-> StrV(e.msg)]

\* lines 235-242: the entry that stands for an article whose analysis raised e
analysis_sentinel(article, e) ==
    [article_id |-> Get(article, "id", StrV("unknown")),
     title |-> Get(article, "title", StrV("Unknown")),
     error |-> StrV(e.msg),
     gist |-> StrV("Analysis failed"),
     sentiment |-> StrV("neutral"),
     tone |-> StrV("informative")]

\* an article whose analysis raised is left out of the list
AnalyzeBatchCollectDropsFailed ==
    /\ op = "analyze_batch"
    /\ ipc \in {"returned", "raised"}
    /\ IF ipc = "returned"
       THEN /\ results' = Append(results, ival.what)
            /\ delays' = IF idx - 1 < Len(articles) - 1 THEN Append(delays, idx) ELSE delays
       ELSE /\ results' = results
            /\ delays' = delays
    /\ idx' = idx + 1
    /\ ipc' = "idle"
    /\ ival' = Pending
    /\ attempt' = 0
    /\ ireq' = 0
    /\ islept' = <<>>
    /\ last' = NoAttempt
    /\ UNCHANGED <<op, articles, analyses, retry_count, text, vtext, run, fetch, calls, outcome>>

\* the sentiment found is written into the article itself
AnalyzeBatchCollectMarksArticle ==
    /\ op = "analyze_batch"
    /\ ipc \in {"returned", "raised"}
    /\ IF ipc = "returned"
       THEN /\ results' = Append(results, ival.what)
            /\ delays' = IF idx - 1 < Len(articles) - 1 THEN Append(delays, idx) ELSE delays
            /\ articles' = [articles EXCEPT ![idx] =
                              [f \in DOMAIN CurArticle \cup {"sentiment"} |->
                                  IF f = "sentiment" THEN ival.what["sentiment"]
                                  ELSE CurArticle[f]]]
       ELSE /\ results' = Append(results, analysis_sentinel(CurArticle, ival.what))
            /\ delays' = delays
            /\ articles' = articles
    /\ idx' = idx + 1
    /\ ipc' = "idle"
    /\ ival' = Pending
    /\ attempt' = 0
    /\ ireq' = 0
    /\ islept' = <<>>
    /\ last' = NoAttempt
    /\ UNCHANGED <<op, analyses, retry_count, text, vtext, run, fetch, calls, outcome>>

\* the rest of the loop body once analyze_article has ended: lines 226-242
AnalyzeBatchCollect ==
    /\ op = "analyze_batch"
    /\ ipc \in {"returned", "raised"}
    /\ IF ipc = "returned"
       THEN /\ results' = Append(results, ival.what)
            /\ delays' = IF idx - 1 < Len(articles) - 1 THEN Append(delays, idx) ELSE delays
       ELSE /\ results' = Append(results, analysis_sentinel(CurArticle, ival.what))
            /\ delays' = delays
    /\ idx' = idx + 1
    /\ ipc' = "idle"
    /\ ival' = Pending
    /\ attempt' = 0
    /\ ireq' = 0
    /\ islept' = <<>>
    /\ last' = NoAttempt
    /\ UNCHANGED <<op, articles, analyses, retry_count, text, vtext, run, fetch, calls, outcome>>

\* line 244
AnalyzeBatchReturn ==
    /\ op = "analyze_batch"
    /\ ipc = "idle"
    /\ idx > Len(articles)
    /\ outcome.kind = "none"
    /\ outcome' = Return(results)
    /\ UNCHANGED <<op, articles, analyses, retry_count, text, vtext, run, fetch, idx, results, delays,
                   attempt, ipc, ival, ireq, islept, last, calls>>

\* ------------------------------------------------------------------------
\* LLMValidator._parse_validation
\* ------------------------------------------------------------------------

\* the result labels; "v", "x" and "!" stand for the check mark, the cross
\* and the warning sign that open them in the source
LabelCorrect == "v Correct"

LabelIssues == "x Issues Found"

LabelFailed == "! Validation Failed"

\* bool(x)
Truthy(x) ==
    CASE x.t = "bool" -> x.v
      [] x.t = "none" -> FALSE
      [] x.t = "str"  -> x.v # ""
      [] x.t = "int"  -> x.v # 0
      [] x.t = "list" -> Len(x.v) > 0
      [] x.t = "dict" -> DOMAIN x.v # {}

RECURSIVE DropFenceLines(_)
\* [l for l in lines if not l.startswith(fence)]
DropFenceLines(lines) ==
    IF Len(lines) = 0 THEN <<>>
    ELSE IF StartsWith(lines[1], FenceMark) THEN DropFenceLines(Tail(lines))
    ELSE <<lines[1]>> \o DropFenceLines(Tail(lines))

\* the text handed to json.loads: lines 237-242
CleanValidation(validation_text) ==
    IF StartsWith(Strip(validation_text), FenceMark)
    THEN Join(DropFenceLines(Split(Strip(validation_text), "\n")), "\n")
    ELSE Strip(validation_text)

\* the label is worked out before is_valid gets its default
WithDefaultsLabelFirst(d) ==
    LET d1 == IF "result" \notin DOMAIN d
              THEN Put(d, "result",
                       StrV(IF Truthy(Get(d, "is_valid", NoneV)) THEN LabelCorrect
                                                                   ELSE LabelIssues))
              ELSE d
        d2 == IF "is_valid" \notin DOMAIN d1 THEN Put(d1, "is_valid", BoolV(TRUE)) ELSE d1
        d3 == IF "reasoning" \notin DOMAIN d2
              THEN Put(d2, "reasoning", StrV("Validation completed"))
              ELSE d2
    IN  IF "corrections" \notin DOMAIN d3 THEN Put(d3, "corrections", DictV(EmptyDict)) ELSE d3

\* lines 248-258 on a loaded dict: the defaults of the keys it lacks
WithDefaults(d) ==
    LET d1 == IF "is_valid" \notin DOMAIN d THEN Put(d, "is_valid", BoolV(TRUE)) ELSE d
        d2 == IF "result" \notin DOMAIN d1
              THEN Put(d1, "result",
                       StrV(IF Truthy(d1["is_valid"]) THEN LabelCorrect ELSE LabelIssues))
              ELSE d1
        d3 == IF "reasoning" \notin DOMAIN d2
              THEN Put(d2, "reasoning", StrV("Validation completed"))
              ELSE d2
    IN  IF "corrections" \notin DOMAIN d3 THEN Put(d3, "corrections", DictV(EmptyDict)) ELSE d3

\* the keywords are looked for in the text as it is, upper case kept
KeywordFallbackCaseSensitive(cleaned) ==
    LET is_valid == Contains(cleaned, "correct") \/ Contains(cleaned, "accurate")
    IN  [is_valid |-> BoolV(is_valid),
         result |-> StrV(IF is_valid THEN LabelCorrect ELSE LabelIssues),
         reasoning |-> StrV(Prefix(cleaned, 200)),
         corrections |-> DictV(EmptyDict)]

\* lines 266-275: the keyword fallback, on the cleaned text
KeywordFallback(cleaned) ==
    LET is_valid == Contains(Lower(cleaned), "correct") \/ Contains(Lower(cleaned), "accurate")
    IN  [is_valid |-> BoolV(is_valid),
         result |-> StrV(IF is_valid THEN LabelCorrect ELSE LabelIssues),
         reasoning |-> StrV(Prefix(cleaned, 200)),
         corrections |-> DictV(EmptyDict)]

\* str(e) of the TypeError of x[key] = ..., x a list or a str
AssignFailure(x) ==
    IF x.t = "list" THEN "list indices must be integers or slices, not str"
    ELSE "'str' object does not support item assignment"

\* str(e) of the TypeError of x[key], x a list or a str
IndexFailure(x) ==
    IF x.t = "list" THEN "list indices must be integers or slices, not str"
    ELSE "string indices must be integers, not 'str'"

\* lines 248-258 on a loaded document that is no dict: str(e) of the
\* exception raised, "" when none is
NotADictFailure(doc) ==
    IF doc.t \notin {"list", "str"}
    THEN "argument of type '" \o TypeName(doc) \o "' is not iterable"
    ELSE IF ~PyIn("is_valid", doc) THEN AssignFailure(doc)
    ELSE IF ~PyIn("result", doc) THEN IndexFailure(doc)
    ELSE IF ~PyIn("reasoning", doc) THEN AssignFailure(doc)
    ELSE IF ~PyIn("corrections", doc) THEN AssignFailure(doc)
    ELSE ""

\* _parse_validation(validation_text, article_id), validation_text being the
\* content of the first message (a str, or None): the value returned, or the
\* LLMValidatorError raised
parse_validation(content) ==
    LET cleaned == CleanValidation(content.v)
        loaded == JsonLoads(cleaned)
    IN  IF content.t # "str"
        THEN Raise("LLMValidatorError",
                   "Failed to parse validation: '" \o TypeName(content)
                   \o "' object has no attribute 'strip'")
        ELSE IF ~loaded.ok THEN Return(DictV(KeywordFallback(cleaned)))
        ELSE IF loaded.doc.t = "dict" THEN Return(DictV(WithDefaults(loaded.doc.v)))
        ELSE IF NotADictFailure(loaded.doc) # ""
        THEN Raise("LLMValidatorError",
                   "Failed to parse validation: " \o NotADictFailure(loaded.doc))
        ELSE Return(loaded.doc)

\* ------------------------------------------------------------------------
\* Inputs of the validator: analyses and the answers of model #2
\* ------------------------------------------------------------------------

\* an analysis as analyze_article returns it
GoodAnalysis(id) ==
    analysis_record(Article(id, "Budget passed", LongText),
                    [gist |-> StrV("Budget bill passed."), sentiment |-> StrV("positive"),
                     tone |-> StrV("urgent")],
                    "{}")

\* an analysis as analyze_batch writes it for a failed article
FailedAnalysis(id) ==
    analysis_sentinel(Article(id, "Markets", Text30),
                      Exc("LLMAnalyzerError", "Response was empty or blocked"))

\* d without key k
Without(d, k) == [j \in (DOMAIN d) \ {k} |-> d[j]]

\* analyses a single validate_analysis call is made with
AnalysisSamples ==
    { GoodAnalysis(1), FailedAnalysis(2),
      Without(GoodAnalysis(1), "tone"), Without(GoodAnalysis(1), "sentiment"),
      Without(GoodAnalysis(2), "gist"), EmptyDict }

\* articles a single validate_analysis call is made with
ValidatorArticleSamples ==
    { Article(1, "Budget passed", LongText),
      [title |-> StrV("No id"), full_text |-> StrV(LongText)],
      [id |-> IntV(3), title |-> StrV("No text")],
      [id |-> IntV(1), title |-> StrV("Null text"), full_text |-> NoneV],
      EmptyDict }

\* what the lists handed to validate_batch are made of
BatchValidatorArticleSamples ==
    { Article(1, "Budget passed", LongText), Article(2, "Markets", Text30),
      [id |-> IntV(3), title |-> StrV("No text")] }

BatchAnalysisSamples ==
    { GoodAnalysis(1), FailedAnalysis(2), Without(GoodAnalysis(1), "sentiment") }

\* an answer to requests.post: a requests exception, a response with a
\* status code and a body, or a 200 response whose JSON has no choices, or
\* whose first choice has the given message content
PostRaises(type, msg) ==
    [kind |-> "raise", status |-> 0, body |-> "", content |-> NoneV, exc |-> Exc(type, msg)]

PostStatus(code, body) ==
    [kind |-> "status", status |-> code, body |-> body, content |-> NoneV,
     exc |-> Exc("", "")]

PostNoChoices ==
    [kind |-> "nochoices", status |-> 200, body |-> "{\"choices\": []}", content |-> NoneV,
     exc |-> Exc("", "")]

PostContent(content) ==
    [kind |-> "content", status |-> 200, body |-> "", content |-> content,
     exc |-> Exc("", "")]

\* the answers to a single validate_analysis call
ValidatorReplies ==
    { PostRaises("Timeout", "Read timed out."),
      PostRaises("RequestException", "Connection refused"),
      PostStatus(429, "Too Many Requests"), PostStatus(500, "Internal Server Error"),
      PostNoChoices, PostContent(NoneV),
      PostContent(StrV("")),
      PostContent(StrV("The analysis looks correct and accurate.")),
      PostContent(StrV("Wrong sentiment.")),
      PostContent(StrV("'''json\n{\"is_valid\": false}\n'''")) }
    \cup { PostContent(StrV(JsonText[d])) : d \in NonObjects }
    \cup { PostContent(StrV(JsonText[d])) : d \in
            { o \in ValidationObjects :
                Cardinality(DOMAIN o.v) \in {0, 1, Cardinality(ValidationKeys)} } }

\* the answers inside a validate_batch call
BatchValidatorReplies ==
    { PostRaises("Timeout", "Read timed out."), PostStatus(429, "Too Many Requests"),
      PostContent(StrV("Wrong sentiment.")),
      PostContent(StrV(JsonText[DictV([is_valid |-> BoolV(TRUE)])])) }

\* the answers of model #2 inside a pipeline run
RunValidatorReplies ==
    { PostRaises("Timeout", "Read timed out."),
      PostContent(StrV(JsonText[DictV([is_valid |-> BoolV(FALSE),
                                       result |-> StrV("x Issues Found"),
                                       reasoning |-> StrV("The sentiment is wrong."),
                                       corrections |->
                                           DictV([sentiment |-> StrV("negative")])])])) }

\* the analysis the single-item call is about
CurAnalysis == analyses[idx]

\* validate_batch's delay as main.py passes it (and its default)
ValidateDelay == 2

\* ------------------------------------------------------------------------
\* LLMValidator.validate_analysis
\* ------------------------------------------------------------------------

\* an analysis without tone is turned down
validate_preconditions_tone_required(article, analysis) ==
    IF article = EmptyDict \/ "full_text" \notin DOMAIN article
    THEN Raise("ValueError", "Article must contain 'full_text' field")
    ELSE IF analysis = EmptyDict \/ "gist" \notin DOMAIN analysis
            \/ "sentiment" \notin DOMAIN analysis \/ "tone" \notin DOMAIN analysis
    THEN Raise("ValueError", "Analysis must contain 'gist', 'sentiment', 'tone'")
    ELSE IF article["full_text"].t # "str"
    THEN Raise("TypeError",
               "'" \o TypeName(article["full_text"]) \o "' object is not subscriptable")
    ELSE Pending

\* lines 80-93: the exception raised before the retry loop, Pending if none
\* (the last one is raised by the slice of full_text in the prompt)
validate_preconditions(article, analysis) ==
    IF article = EmptyDict \/ "full_text" \notin DOMAIN article
    THEN Raise("ValueError", "Article must contain 'full_text' field")
    ELSE IF analysis = EmptyDict \/ "gist" \notin DOMAIN analysis
            \/ "sentiment" \notin DOMAIN analysis
    THEN Raise("ValueError", "Analysis must contain 'gist', 'sentiment', 'tone'")
    ELSE IF article["full_text"].t # "str"
    THEN Raise("TypeError",
               "'" \o TypeName(article["full_text"]) \o "' object is not subscriptable")
    ELSE Pending

\* lines 144-153: the dict validate_analysis returns
validation_record(article, analysis, validation, validation_text) ==
    [article_id |-> Get(article, "id", Get(analysis, "article_id", StrV("unknown"))),
     title |-> Get(article, "title", StrV("No title")),
     is_valid |-> validation["is_valid"],
     validation_result |-> validation["result"],
     reasoning |-> validation["reasoning"],
     corrections |-> Get(validation, "corrections", DictV(EmptyDict)),
     validator_model |-> StrV("mistralai/mistral-7b-instruct"),
     raw_validation |-> validation_text]

\* a retry-loop clause of pass i that sleeps `secs` and goes on, or on the
\* last pass raises LLMValidatorError(msg)
validate_retry(count, i, kind, secs, msg) ==
    IF i < count - 1
    THEN [fail |-> kind, slept |-> secs, res |-> Pending]
    ELSE [fail |-> kind, slept |-> 0, res |-> Raise("LLMValidatorError", msg)]

\* lines 169-174: the last except clause of pass i, on exception e
validate_except(count, i, kind, e) ==
    validate_retry(count, i, kind, 2,
                   "Validation failed after " \o IntStr(count) \o " attempts: " \o e.msg)

\* a rate-limit answer is followed by the same fixed 2 seconds as a timeout
validate_status_fixed_sleep(count, i, reply) ==
    IF reply.status = 429
    THEN IF i < count - 1
         THEN [fail |-> "rate_limit", slept |-> 2, res |-> Pending]
         ELSE validate_except(count, i, "rate_limit",
                              Exc("LLMValidatorError", "Rate limit exceeded"))
    ELSE IF i < count - 1
         THEN [fail |-> "status", slept |-> 1, res |-> Pending]
         ELSE validate_except(count, i, "status",
                              Exc("LLMValidatorError",
                                  "API error: " \o IntStr(reply.status) \o " - " \o reply.body))

\* lines 114-129: a response whose status is not 200. On the last pass the
\* LLMValidatorError raised inside the try is caught by the last except clause
validate_status(count, i, reply) ==
    IF reply.status = 429
    THEN IF i < count - 1
         THEN [fail |-> "rate_limit", slept |-> Pow2(i), res |-> Pending]
         ELSE validate_except(count, i, "rate_limit",
                              Exc("LLMValidatorError", "Rate limit exceeded"))
    ELSE IF i < count - 1
         THEN [fail |-> "status", slept |-> 1, res |-> Pending]
         ELSE validate_except(count, i, "status",
                              Exc("LLMValidatorError",
                                  "API error: " \o IntStr(reply.status) \o " - " \o reply.body))

\* one pass of the retry loop (lines 97-174) on the answer `reply`
validate_attempt(article, analysis, count, i, reply) ==
    LET parsed == parse_validation(reply.content)
    IN  IF reply.kind = "raise" /\ reply.exc.type = "Timeout"
        THEN validate_retry(count, i, "timeout", 2, "Request timeout after retries")
        ELSE IF reply.kind = "raise"
        THEN validate_retry(count, i, "network", 2, "Network error: " \o reply.exc.msg)
        ELSE IF reply.status # 200 THEN validate_status(count, i, reply)
        ELSE IF reply.kind = "nochoices"
        THEN validate_except(count, i, "empty",
                             Exc("LLMValidatorError", "Empty response from API"))
        ELSE IF parsed.kind = "raise" THEN validate_except(count, i, "parse", parsed.what)
        ELSE IF parsed.what.t # "dict"
        THEN validate_except(count, i, "parse", Exc("TypeError", IndexFailure(parsed.what)))
        ELSE [fail |-> "none", slept |-> 0,
              res |-> Return(validation_record(article, analysis, parsed.what.v,
                                               reply.content))]

\* the number of pairs zip(articles, analyses) yields
ZipLen == IF Len(articles) < Len(analyses) THEN Len(articles) ELSE Len(analyses)

\* the length test is left out
validate_batch_preconditions_unchecked(arts, anas) == Pending

\* lines 293-294
validate_batch_preconditions(arts, anas) ==
    IF Len(arts) # Len(anas)
    THEN Raise("ValueError", "Articles and analyses lists must have same length")
    ELSE Pending

\* validate_analysis is entered for the pair in hand: lines 80-93
ValidateEnter ==
    /\ op \in {"validate_analysis", "validate_batch"}
    /\ ipc = "idle"
    /\ outcome.kind = "none"
    /\ op = "validate_batch" => validate_batch_preconditions(articles, analyses).kind = "none"
    /\ idx <= ZipLen
    /\ attempt' = 0
    /\ ireq' = 0
    /\ islept' = <<>>
    /\ last' = NoAttempt
    /\ \E pre \in {validate_preconditions(CurArticle, CurAnalysis)} :
         IF pre.kind = "none"
         THEN ipc' = "loop" /\ ival' = Pending
         ELSE ipc' = "raised" /\ ival' = pre
    /\ UNCHANGED <<op, articles, analyses, retry_count, text, vtext, run, fetch, idx, results, delays,
                   calls, outcome>>

\* one pass of the retry loop: a request to model #2 and all that follows
\* from its answer
ValidateAttempt ==
    /\ op \in {"validate_analysis", "validate_batch"}
    /\ ipc = "loop"
    /\ attempt < retry_count
    /\ \E reply \in (CASE run.stage # "none" -> RunValidatorReplies
                       [] op = "validate_batch" -> BatchValidatorReplies
                       [] OTHER -> ValidatorReplies) :
         \E r \in {validate_attempt(CurArticle, CurAnalysis, retry_count, attempt, reply)} :
             /\ last' = [attempt |-> attempt, fail |-> r.fail, slept |-> r.slept]
             /\ islept' = IF r.slept > 0 THEN Append(islept, r.slept) ELSE islept
             /\ ival' = r.res
             /\ ipc' = CASE r.res.kind = "return" -> "returned"
                         [] r.res.kind = "raise" -> "raised"
                         [] OTHER -> "loop"
             /\ attempt' = IF r.res.kind = "none" THEN attempt + 1 ELSE attempt
    /\ ireq' = ireq + 1
    /\ calls' = calls + 1
    /\ UNCHANGED <<op, articles, analyses, retry_count, text, vtext, run, fetch, idx, results, delays,
                   outcome>>

\* the retry loop ends without a return or a raise: the function falls off its
\* end and returns None
ValidateFallThrough ==
    /\ op \in {"validate_analysis", "validate_batch"}
    /\ ipc = "loop"
    /\ attempt >= retry_count
    /\ ipc' = "returned"
    /\ ival' = Return(NoneV)
    /\ UNCHANGED <<op, articles, analyses, retry_count, text, vtext, run, fetch, idx, results, delays,
                   attempt, ireq, islept, last, calls, outcome>>

\* ------------------------------------------------------------------------
\* LLMValidator.validate_batch
\* ------------------------------------------------------------------------

\* the entry for a failed pair says the analysis is not valid
validation_sentinel_fail_closed(article, e) ==
    [article_id |-> Get(article, "id", StrV("unknown")),
     title |-> Get(article, "title", StrV("Unknown")),
     is_valid |-> BoolV(FALSE),
     validation_result |-> StrV(LabelFailed),
     reasoning |-> StrV("Error: " \o e.msg),
     corrections |-> DictV(EmptyDict),
     error |-> StrV(e.msg)]

\* lines 310-318: the entry that stands for a pair whose validation raised e
validation_sentinel(article, e) ==
    [article_id |-> Get(article, "id", StrV("unknown")),
     title |-> Get(article, "title", StrV("Unknown")),
     is_valid |-> BoolV(TRUE),
     validation_result |-> StrV(LabelFailed),
     reasoning |-> StrV("Error: " \o e.msg),
     corrections |-> DictV(EmptyDict),
     error |-> StrV(e.msg)]

\* lines 293-294 raise
ValidateBatchRejects ==
    /\ op = "validate_batch"
    /\ ipc = "idle"
    /\ idx = 1
    /\ outcome.kind = "none"
    /\ validate_batch_preconditions(articles, analyses).kind = "raise"
    /\ outcome' = validate_batch_preconditions(articles, analyses)
    /\ UNCHANGED <<op, articles, analyses, retry_count, text, vtext, run, fetch, idx, results, delays,
                   attempt, ipc, ival, ireq, islept, last, calls>>

\* the delay is slept after every pair, the last and the failed ones too
ValidateBatchCollectAlwaysSleeps ==
    /\ op = "validate_batch"
    /\ ipc \in {"returned", "raised"}
    /\ IF ipc = "returned"
       THEN results' = Append(results, ival.what)
       ELSE results' = Append(results, validation_sentinel(CurArticle, ival.what))
    /\ delays' = Append(delays, idx)
    /\ idx' = idx + 1
    /\ ipc' = "idle"
    /\ ival' = Pending
    /\ attempt' = 0
    /\ ireq' = 0
    /\ islept' = <<>>
    /\ last' = NoAttempt
    /\ UNCHANGED <<op, articles, analyses, retry_count, text, vtext, run, fetch, calls,
                   outcome>>

\* the rest of the loop body once validate_analysis has ended: lines 301-318
ValidateBatchCollect ==
    /\ op = "validate_batch"
    /\ ipc \in {"returned", "raised"}
    /\ IF ipc = "returned"
       THEN /\ results' = Append(results, ival.what)
            /\ delays' = IF idx - 1 < Len(articles) - 1 THEN Append(delays, idx) ELSE delays
       ELSE /\ results' = Append(results, validation_sentinel(CurArticle, ival.what))
            /\ delays' = delays
    /\ idx' = idx + 1
    /\ ipc' = "idle"
    /\ ival' = Pending
    /\ attempt' = 0
    /\ ireq' = 0
    /\ islept' = <<>>
    /\ last' = NoAttempt
    /\ UNCHANGED <<op, articles, analyses, retry_count, text, vtext, run, fetch, calls, outcome>>

\* line 320
ValidateBatchReturn ==
    /\ op = "validate_batch"
    /\ ipc = "idle"
    /\ idx > ZipLen
    /\ validate_batch_preconditions(articles, analyses).kind = "none"
    /\ outcome.kind = "none"
    /\ outcome' = Return(results)
    /\ UNCHANGED <<op, articles, analyses, retry_count, text, vtext, run, fetch, idx, results, delays,
                   attempt, ipc, ival, ireq, islept, last, calls>>

\* ------------------------------------------------------------------------
\* The parsers called on their own
\* ------------------------------------------------------------------------

\* the raw texts _parse_response is called with: the text of every object
\* model #1 may answer with, bare, padded and fenced, the documents that are
\* no objects, and text that is no JSON
ParseTexts ==
    { JsonText[d] : d \in AnalysisObjects \cup NonObjects }
    \cup { "'''json\n" \o JsonText[d] \o "\n'''" : d \in
            { o \in AnalysisObjects : \A k \in DOMAIN o.v : o.v[k] \in PlainValues } }
    \cup { "\n  " \o JsonText[DictV([gist |-> StrV("Budget bill passed."),
                                    sentiment |-> StrV("positive"),
                                    tone |-> StrV("urgent")])] \o "  \n",
           "This is not JSON", "",
           FenceMark \o "json " \o JsonText[DictV([gist |-> StrV("Budget bill passed."),
                                                  sentiment |-> StrV("positive"),
                                                  tone |-> StrV("urgent")])]
              \o " " \o FenceMark }

\* _parse_response(text, article_id)
ParseResponse ==
    /\ op = "parse_response"
    /\ outcome.kind = "none"
    /\ outcome' = parse_response(text)
    /\ UNCHANGED <<op, articles, analyses, retry_count, text, vtext, run, fetch, idx, results, delays,
                   attempt, ipc, ival, ireq, islept, last, calls>>

\* ------------------------------------------------------------------------
\* _parse_validation called on its own
\* ------------------------------------------------------------------------

\* a JSON text inside a code fence whose markers are on lines of their own
FenceOwnLines(json) == FenceMark \o "json\n" \o json \o "\n" \o FenceMark

\* a JSON text inside a code fence, all on one line
FenceSameLine(json) == FenceMark \o "json " \o json \o " " \o FenceMark

RECURSIVE Repeat(_, _)
\* s * n
Repeat(s, n) == IF n = 0 THEN "" ELSE s \o Repeat(s, n - 1)

\* a reply of 207 characters whose only keyword lies after the first 200
LateKeywordText == Repeat("The tone is off. ", 12) \o "Correct"

\* replies of model #2 that are no JSON
PlainReplies ==
    { "The analysis looks correct and accurate.", "This is wrong and inaccurate.",
      "Wrong sentiment.", "", "  Looks ACCURATE to me.  ",
      FenceMark \o "correct\nWrong sentiment.\n" \o FenceMark,
      LateKeywordText }

\* the JSON objects whose fenced texts are tried
FencedValidationObjects ==
    { o \in ValidationObjects : Cardinality(DOMAIN o.v) \in {1, Cardinality(ValidationKeys)} }

\* the contents _parse_validation is called with: the text of every document
\* model #2 may answer with, objects bare and fenced, text that is no JSON,
\* and None
ValidationTexts ==
    { StrV(JsonText[d]) : d \in ValidationObjects \cup NonObjects }
    \cup { StrV(FenceOwnLines(JsonText[d])) : d \in FencedValidationObjects }
    \cup { StrV(FenceSameLine(JsonText[d])) : d \in FencedValidationObjects }
    \cup { StrV(t) : t \in PlainReplies }
    \cup { NoneV }

\* _parse_validation(validation_text, article_id)
ParseValidation ==
    /\ op = "parse_validation"
    /\ outcome.kind = "none"
    /\ outcome' = parse_validation(vtext)
    /\ UNCHANGED <<op, articles, analyses, retry_count, text, vtext, run, fetch, idx,
                   results, delays, attempt, ipc, ival, ireq, islept, last, calls>>

\* ------------------------------------------------------------------------
\* NewsFetcher
\* ------------------------------------------------------------------------

\* s.endswith(p)
EndsWith(s, p) == Len(s) >= Len(p) /\ SubSeq(s, Len(s) - Len(p) + 1, Len(s)) = p

\* s.split(p)[0]: what comes before the first p in s, s itself if there is none
BeforeFirst(s, p) ==
    IF Contains(s, p)
    THEN LET i == CHOOSE j \in 1..(Len(s) - Len(p) + 1) :
                      /\ SubSeq(s, j, j + Len(p) - 1) = p
                      /\ \A k \in 1..(j - 1) : SubSeq(s, k, k + Len(p) - 1) # p
         IN SubSeq(s, 1, i - 1)
    ELSE s

\* `x or ''` followed by .strip(): the str, trimmed, or AttributeError when
\* what is left is no str
StripOrEmpty(x) ==
    IF ~Truthy(x) THEN Return(StrV(""))
    ELSE IF x.t = "str" THEN Return(StrV(Strip(x.v)))
    ELSE Raise("AttributeError", "'" \o TypeName(x) \o "' object has no attribute 'strip'")

\* line 136: article.get('title', '').strip()
TitleOf(article) ==
    IF "title" \notin DOMAIN article THEN Return(StrV(""))
    ELSE IF article["title"].t = "str" THEN Return(StrV(Strip(article["title"].v)))
    ELSE Raise("AttributeError",
               "'" \o TypeName(article["title"]) \o "' object has no attribute 'strip'")

\* lines 146-152: description and content joined and trimmed, then cut at
\* the truncation markers of the news service
FullText(description, content) ==
    LET joined == Strip(description \o " " \o content)
        unmarked == IF EndsWith(joined, "[+")
                    THEN Strip(SubSeq(joined, 1, Len(joined) - 2))
                    ELSE joined
    IN IF Contains(unmarked, " chars]")
       THEN Strip(BeforeFirst(unmarked, " chars]"))
       ELSE unmarked

\* lines 160-165: an ISO date 'YYYY-MM-DDThh:mm:ssZ' is written
\* 'YYYY-MM-DD hh:mm:ss UTC'; what does not parse is kept as it is
PublishedStr(published_at) ==
    IF /\ published_at.t = "str"
       /\ Len(published_at.v) = 20
       /\ CharAt(published_at.v, 11) = "T"
       /\ CharAt(published_at.v, 20) = "Z"
    THEN StrV(SubSeq(published_at.v, 1, 10) \o " " \o SubSeq(published_at.v, 12, 19)
              \o " UTC")
    ELSE published_at

\* line 173: article.get('source', {}).get('name') or 'Unknown'
SourceName(article) ==
    LET source == Get(article, "source", DictV(EmptyDict))
    IN IF source.t # "dict"
       THEN Raise("AttributeError",
                  "'" \o TypeName(source) \o "' object has no attribute 'get'")
       ELSE IF Truthy(Get(source.v, "name", NoneV))
       THEN Return(Get(source.v, "name", NoneV))
       ELSE Return(StrV("Unknown"))

\* the time of the fetch, as line 177 writes it
FetchedAt == StrV("2026-01-17 12:00:00")

\* lines 167-178: the normalized article of the raw article at `index`
normalized_article(article, index, title, description, content, source) ==
    [id |-> IntV(index + 1),
     title |-> StrV(title),
     description |-> StrV(description),
     content |-> StrV(content),
     full_text |-> StrV(FullText(description, content)),
     source |-> source,
     author |-> IF Truthy(Get(article, "author", NoneV))
                THEN article["author"] ELSE StrV("Unknown"),
     url |-> Get(article, "url", StrV("")),
     published_at |-> PublishedStr(Get(article, "publishedAt", StrV(""))),
     fetched_at |-> FetchedAt]

\* no least length is asked of the text
normalize_article_any_length(article, index) ==
    LET title == TitleOf(article)
        description == StripOrEmpty(Get(article, "description", NoneV))
        content == StripOrEmpty(Get(article, "content", NoneV))
    IN IF title.kind = "raise" THEN title
       ELSE IF description.kind = "raise" THEN description
       ELSE IF content.kind = "raise" THEN content
       ELSE IF title.what.v = "" \/ (description.what.v = "" /\ content.what.v = "")
       THEN Return(NoneV)
       ELSE IF SourceName(article).kind = "raise" THEN SourceName(article)
       ELSE Return(DictV(normalized_article(article, index, title.what.v,
                                            description.what.v, content.what.v,
                                            SourceName(article).what)))

\* _normalize_article, lines 124-178: the normalized article, None for an
\* article that is to be skipped, or the exception it raises
normalize_article(article, index) ==
    LET title == TitleOf(article)
        description == StripOrEmpty(Get(article, "description", NoneV))
        content == StripOrEmpty(Get(article, "content", NoneV))
    IN IF title.kind = "raise" THEN title
       ELSE IF description.kind = "raise" THEN description
       ELSE IF content.kind = "raise" THEN content
       ELSE IF title.what.v = "" \/ (description.what.v = "" /\ content.what.v = "")
       THEN Return(NoneV)
       ELSE IF Len(FullText(description.what.v, content.what.v)) < 50
       THEN Return(NoneV)
       ELSE IF SourceName(article).kind = "raise" THEN SourceName(article)
       ELSE Return(DictV(normalized_article(article, index, title.what.v,
                                            description.what.v, content.what.v,
                                            SourceName(article).what)))

\* the raw articles the news service answers with
RawComplete ==
    [title |-> StrV("Test Article"),
     description |-> StrV("This is a test description with enough content."),
     content |-> StrV("This is test content with more than fifty characters for validation."),
     source |-> DictV([name |-> StrV("Test Source")]),
     author |-> StrV("Test Author"),
     url |-> StrV("https://example.com/article"),
     publishedAt |-> StrV("2026-01-17T10:00:00Z")]

RawMissingFields ==
    [title |-> StrV("Test Article"),
     description |-> StrV("This is a test description with enough content to pass validation."),
     content |-> NoneV,
     source |-> DictV(EmptyDict),
     author |-> NoneV,
     url |-> StrV("https://example.com")]

\* a text of exactly 50 characters, under a padded title
RawFifty ==
    [title |-> StrV("  Polls  "),
     description |-> StrV("  Voters in two states go to the polls next Tuesday. "),
     content |-> StrV("")]

\* a text of 49 characters
RawFortyNine ==
    [title |-> StrV("Polls"),
     description |-> NoneV,
     content |-> StrV("Voters in two states go to the polls next Monday.")]

\* 70 characters, of which 44 come before the truncation marker
RawTruncated ==
    [title |-> StrV("Budget"),
     content |-> StrV("Ministers met on Monday to discuss it [+1487 chars] and then some more"),
     source |-> DictV([name |-> StrV("Test Source")])]

RawNoTitle == Without(RawComplete, "title")

RawNullTitle == [RawComplete EXCEPT !["title"] = NoneV]

RawNoText == [title |-> StrV("Test Article"), description |-> NoneV, content |-> StrV("   ")]

\* a text of 16 characters
RawShort == [title |-> StrV("Polls"), description |-> StrV("Polls on Monday.")]

RawArticleSamples ==
    { RawComplete, RawMissingFields, RawFifty, RawFortyNine, RawTruncated, RawNoTitle,
      RawNullTitle, RawNoText, RawShort }

\* an answer of the news service to get_everything: an exception, or a
\* response with a status and, unless `listed` is FALSE, a list of articles
SourceRaises(type, msg) ==
    [kind |-> "raise", exc |-> Exc(type, msg), status |-> "", listed |-> FALSE,
     articles |-> <<>>]

SourceResponse(status, listed, raw) ==
    [kind |-> "response", exc |-> Exc("", ""), status |-> status, listed |-> listed,
     articles |-> raw]

SourceReplies ==
    { SourceRaises("NewsAPIException", "rateLimited"),
      SourceRaises("ConnectionError", "Connection refused"),
      SourceRaises("KeyError", "'status'"),
      SourceResponse("error", FALSE, <<>>),
      SourceResponse("ok", FALSE, <<>>) }
    \cup { SourceResponse("ok", TRUE, raw) : raw \in SeqUpTo(RawArticleSamples, MaxFetched) }

\* the arguments fetch_articles is called with
QuerySamples == {StrV("India politics"), StrV(""), StrV("   "), NoneV}

MaxArticlesSamples == {-1, 0, 1, 2, 100, 101}

\* lines 71-75 take any argument
fetch_preconditions_unchecked(query, max_articles) == Pending

\* lines 71-75: the exception raised before the news service is asked
fetch_preconditions(query, max_articles) ==
    IF ~Truthy(query) \/ Len(Strip(query.v)) = 0
    THEN Raise("ValueError", "Query cannot be empty")
    ELSE IF max_articles < 1 \/ max_articles > 100
    THEN Raise("ValueError", "max_articles must be between 1 and 100")
    ELSE Pending

RECURSIVE normalize_all_renumbered(_, _, _)
\* the kept articles are numbered 1, 2, ... as they are appended
normalize_all_renumbered(raw, index, kept) ==
    IF index >= Len(raw) THEN kept
    ELSE LET n == normalize_article(raw[index + 1], Len(kept))
         IN normalize_all_renumbered(raw, index + 1,
                IF n.kind = "return" /\ Truthy(n.what) THEN Append(kept, n.what.v)
                ELSE kept)

RECURSIVE normalize_all(_, _, _)
\* lines 99-107: the loop over enumerate(raw) from index index on; an article
\* for which _normalize_article returns None or raises is skipped
normalize_all(raw, index, kept) ==
    IF index >= Len(raw) THEN kept
    ELSE LET n == normalize_article(raw[index + 1], index)
         IN normalize_all(raw, index + 1,
                IF n.kind = "return" /\ Truthy(n.what) THEN Append(kept, n.what.v)
                ELSE kept)

\* the whole answer is normalized, not its first max_articles
fetch_response_unsliced(max_articles, reply) ==
    IF reply.kind = "raise"
    THEN Raise("NewsAPIError", "Unexpected error: " \o reply.exc.msg)
    ELSE IF reply.status # "ok"
    THEN Raise("NewsAPIError", "Unexpected error: API returned status: " \o reply.status)
    ELSE Return(normalize_all(reply.articles, 0, <<>>))

\* lines 79-122, from the answer of the news service on
fetch_response(max_articles, reply) ==
    IF reply.kind = "raise"
    THEN CASE reply.exc.type = "NewsAPIException" ->
                 Raise("NewsAPIError", "Failed to fetch articles: " \o reply.exc.msg)
           [] reply.exc.type \in {"ConnectionError", "Timeout", "RequestException"} ->
                 Raise("NewsAPIError",
                       "Network error while fetching articles: " \o reply.exc.msg)
           [] OTHER -> Raise("NewsAPIError", "Unexpected error: " \o reply.exc.msg)
    ELSE IF reply.status # "ok"
    THEN Raise("NewsAPIError", "Unexpected error: API returned status: " \o reply.status)
    ELSE IF ~reply.listed \/ Len(reply.articles) = 0
    THEN Return(<<>>)
    ELSE Return(normalize_all(SubSeq(reply.articles, 1,
                                     IF Len(reply.articles) < max_articles
                                     THEN Len(reply.articles) ELSE max_articles),
                              0, <<>>))

\* no fetch_articles call is under way
NoFetch == [stage |-> "none"]

\* a fetch_articles call begins with the given arguments
StartFetch(query, max_articles) ==
    [stage |-> "called", query |-> query, max_articles |-> max_articles, raw |-> <<>>]

\* lines 70-77: the arguments are checked
FetchEnter ==
    /\ op = "fetch_articles"
    /\ fetch.stage = "called"
    /\ outcome.kind = "none"
    /\ \E pre \in {fetch_preconditions(fetch.query, fetch.max_articles)} :
         IF pre.kind = "raise"
         THEN outcome' = pre /\ fetch' = [fetch EXCEPT !.stage = "ended"]
         ELSE outcome' = outcome /\ fetch' = [fetch EXCEPT !.stage = "asking"]
    /\ UNCHANGED <<op, articles, analyses, retry_count, text, vtext, run, idx, results,
                   delays, attempt, ipc, ival, ireq, islept, last, calls>>

\* lines 79-122: the news service is asked and its answer is worked on
FetchRespond ==
    /\ op = "fetch_articles"
    /\ fetch.stage = "asking"
    /\ outcome.kind = "none"
    /\ \E reply \in SourceReplies :
         /\ outcome' = fetch_response(fetch.max_articles, reply)
         /\ fetch' = [fetch EXCEPT !.stage = "ended", !.raw = reply.articles]
    /\ calls' = calls + 1
    /\ UNCHANGED <<op, articles, analyses, retry_count, text, vtext, run, idx, results,
                   delays, attempt, ipc, ival, ireq, islept, last>>

\* ------------------------------------------------------------------------
\* The parsers called a second time
\* ------------------------------------------------------------------------

\* the first call has left the text in lower case
ParseResponseAgainOnLowered ==
    /\ op = "parse_response"
    /\ outcome.kind # "none"
    /\ results = <<>>
    /\ results' = <<parse_response(Lower(text))>>
    /\ UNCHANGED <<op, articles, analyses, retry_count, text, vtext, run, fetch, idx, delays,
                   attempt, ipc, ival, ireq, islept, last, calls, outcome>>

\* _parse_response is called again with the text of the first call; what it
\* returns or raises is kept beside the outcome of the first call
ParseResponseAgain ==
    /\ op = "parse_response"
    /\ outcome.kind # "none"
    /\ results = <<>>
    /\ results' = <<parse_response(text)>>
    /\ UNCHANGED <<op, articles, analyses, retry_count, text, vtext, run, fetch, idx, delays,
                   attempt, ipc, ival, ireq, islept, last, calls, outcome>>

\* _parse_validation is called again with the text of the first call
ParseValidationAgain ==
    /\ op = "parse_validation"
    /\ outcome.kind # "none"
    /\ results = <<>>
    /\ results' = <<parse_validation(vtext)>>
    /\ UNCHANGED <<op, articles, analyses, retry_count, text, vtext, run, fetch, idx, delays,
                   attempt, ipc, ival, ireq, islept, last, calls, outcome>>

\* ------------------------------------------------------------------------
\* NewsAnalysisPipeline.run
\* ------------------------------------------------------------------------

\* the article _normalize_article makes of the raw article at position k - 1
FetchedArticle(k) ==
    [id |-> IntV(k),
     title |-> StrV("Article " \o IntStr(k)),
     description |-> StrV(LongText),
     content |-> StrV(""),
     full_text |-> StrV(LongText),
     source |-> StrV("Unknown"),
     author |-> StrV("Unknown"),
     url |-> StrV(""),
     published_at |-> StrV("2026-01-17 10:00:00 UTC"),
     fetched_at |-> StrV("2026-01-17 12:00:00")]

RECURSIVE Ascending(_)
\* the members of the set of numbers S, in increasing order
Ascending(S) ==
    IF S = {} THEN <<>>
    ELSE LET m == CHOOSE x \in S : \A y \in S : x >= y
         IN Append(Ascending(S \ {m}), m)

\* the lists fetch_articles returns: of the raw articles, those that pass
\* normalisation, each with the id of its raw position
FetchedLists == { [k \in 1..Len(Ascending(S)) |-> FetchedArticle(Ascending(S)[k])]
                  : S \in SUBSET (1..MaxFetched) }

\* what fetch_articles does in a run: it raises, or returns a list
FetchOutcomes ==
    { Raise("NewsAPIError", "Failed to fetch articles: rate limited"),
      Raise("ValueError", "Query cannot be empty") }
    \cup { Return(l) : l \in FetchedLists }

\* the keys _combine_results reads of an article with a subscript
CombinedArticleKeys ==
    <<"id", "title", "source", "author", "url", "published_at", "full_text">>

RECURSIVE FirstMissing(_, _, _)
\* the first key of `keys`, from position i on, that dict d lacks, or ""
FirstMissing(d, keys, i) ==
    IF i > Len(keys) THEN ""
    ELSE IF keys[i] \notin DOMAIN d THEN keys[i]
    ELSE FirstMissing(d, keys, i + 1)

\* the length of the shortest of three lists: what zip yields
Zip3Len(a, b, c) ==
    LET ab == IF Len(a) < Len(b) THEN Len(a) ELSE Len(b)
    IN IF ab < Len(c) THEN ab ELSE Len(c)

\* lines 163-185: the entry made of one article, its analysis, its validation
combined_entry(article, analysis, validation) ==
    [article |-> [id |-> article["id"],
                  title |-> article["title"],
                  source |-> article["source"],
                  author |-> article["author"],
                  url |-> article["url"],
                  published_at |-> article["published_at"],
                  content |-> article["full_text"]],
     analysis |-> [gist |-> Get(analysis, "gist", StrV("N/A")),
                   sentiment |-> Get(analysis, "sentiment", StrV("neutral")),
                   tone |-> Get(analysis, "tone", StrV("informative")),
                   model |-> Get(analysis, "model_used", StrV("unknown"))],
     validation |-> [is_valid |-> Get(validation, "is_valid", BoolV(TRUE)),
                     result |-> Get(validation, "validation_result", StrV("N/A")),
                     reasoning |-> Get(validation, "reasoning", StrV("N/A")),
                     corrections |-> Get(validation, "corrections", DictV(EmptyDict)),
                     validator_model |-> Get(validation, "validator_model",
                                             StrV("unknown"))]]

\* every entry is made with the first analysis and the first validation
combine_results_by_first(arts, anas, vals) ==
    IF \E k \in 1..Zip3Len(arts, anas, vals) :
           FirstMissing(arts[k], CombinedArticleKeys, 1) # ""
    THEN Raise("KeyError", "id")
    ELSE Return([k \in 1..Zip3Len(arts, anas, vals) |->
                    combined_entry(arts[k], anas[1], vals[1])])

\* _combine_results, lines 152-187: KeyError at the first article that lacks
\* a key, else one entry per position of the shortest list
combine_results(arts, anas, vals) ==
    IF \E k \in 1..Zip3Len(arts, anas, vals) :
           FirstMissing(arts[k], CombinedArticleKeys, 1) # ""
    THEN LET k == CHOOSE j \in 1..Zip3Len(arts, anas, vals) :
                     /\ FirstMissing(arts[j], CombinedArticleKeys, 1) # ""
                     /\ \A h \in 1..(j - 1) :
                            FirstMissing(arts[h], CombinedArticleKeys, 1) = ""
         IN Raise("KeyError", FirstMissing(arts[k], CombinedArticleKeys, 1))
    ELSE Return([k \in 1..Zip3Len(arts, anas, vals) |->
                    combined_entry(arts[k], anas[k], vals[k])])

\* a failed article is counted under no sentiment
calculate_statistics_skips_failed(res, duration) ==
    [total_articles |-> Cardinality({k \in 1..Len(res) : res[k].analysis.gist # StrV("Analysis failed")}),
     duration |-> duration,
     sentiment_distribution |->
        [s \in valid_sentiments |->
            Cardinality({k \in 1..Len(res) :
                            /\ res[k].analysis.sentiment.t = "str"
                            /\ res[k].analysis.sentiment.v = s
                            /\ res[k].analysis.gist # StrV("Analysis failed")})],
     tone_distribution |->
        [t \in {res[j].analysis.tone.v : j \in 1..Len(res)} |->
            Cardinality({k \in 1..Len(res) : res[k].analysis.tone.v = t})],
     validation_stats |->
        [valid |-> Cardinality({k \in 1..Len(res) : Truthy(res[k].validation.is_valid)}),
         invalid |-> Cardinality({k \in 1..Len(res) : ~Truthy(res[k].validation.is_valid)})]]

\* the tones are counted over the fixed list of tones, as the sentiments are
calculate_statistics_fixed_tones(res, duration) ==
    [total_articles |-> Len(res),
     duration |-> duration,
     sentiment_distribution |->
        [s \in valid_sentiments |->
            Cardinality({k \in 1..Len(res) :
                            /\ res[k].analysis.sentiment.t = "str"
                            /\ res[k].analysis.sentiment.v = s})],
     tone_distribution |->
        [t \in valid_tones |->
            Cardinality({k \in 1..Len(res) : res[k].analysis.tone.v = t})],
     validation_stats |->
        [valid |-> Cardinality({k \in 1..Len(res) : Truthy(res[k].validation.is_valid)}),
         invalid |-> Cardinality({k \in 1..Len(res) : ~Truthy(res[k].validation.is_valid)})]]

\* _calculate_statistics, lines 189-217
calculate_statistics(res, duration) ==
    [total_articles |-> Len(res),
     duration |-> duration,
     sentiment_distribution |->
        [s \in valid_sentiments |->
            Cardinality({k \in 1..Len(res) :
                            /\ res[k].analysis.sentiment.t = "str"
                            /\ res[k].analysis.sentiment.v = s})],
     tone_distribution |->
        [t \in {res[j].analysis.tone.v : j \in 1..Len(res)} |->
            Cardinality({k \in 1..Len(res) : res[k].analysis.tone.v = t})],
     validation_stats |->
        [valid |-> Cardinality({k \in 1..Len(res) : Truthy(res[k].validation.is_valid)}),
         invalid |-> Cardinality({k \in 1..Len(res) : ~Truthy(res[k].validation.is_valid)})]]

\* _generate_report, lines 219-279: the corrections of an entry are asked for
\* their .values() when they are truthy, which only a dict has; the report is
\* kept as its heading figures and the titles of its sections
generate_report(res, query) ==
    IF \E k \in 1..Len(res) : /\ Truthy(res[k].validation.corrections)
                              /\ res[k].validation.corrections.t # "dict"
    THEN Raise("AttributeError", "object has no attribute 'values'")
    ELSE Return([query |-> query,
                 articles_analyzed |-> Len(res),
                 summary |-> calculate_statistics(res, IntV(0)),
                 sections |-> [k \in 1..Len(res) |-> res[k].article.title]])

\* the default query of run
DefaultQuery == "India politics"

\* the duration handed to _calculate_statistics at the end of a run
Elapsed == StrV("end_time - start_time")

\* no statistics were calculated
NoStatistics == [total_articles |-> -1]

\* a run that has been called and has done nothing yet
StartRun ==
    [stage |-> "start", query |-> DefaultQuery, files |-> <<>>,
     validations |-> <<>>, combined |-> <<>>, statistics |-> NoStatistics]

\* an empty list of articles goes on to the later stages
run_fetch_accepts_none(fetched, saved) ==
    IF fetched.kind = "raise" THEN fetched
    ELSE IF ~saved THEN Raise("OSError", "raw_articles.json")
    ELSE Pending

\* lines 85-97: the articles are fetched; none is an error; the raw articles
\* are saved, which the file system may refuse
run_fetch(fetched, saved) ==
    IF fetched.kind = "raise" THEN fetched
    ELSE IF Len(fetched.what) = 0 THEN Raise("ValueError", "No articles fetched")
    ELSE IF ~saved THEN Raise("OSError", "raw_articles.json")
    ELSE Pending

\* lines 85-103, up to the call of analyze_batch
RunFetch ==
    /\ op = "run"
    /\ run.stage = "start"
    /\ outcome.kind = "none"
    /\ \E fetched \in FetchOutcomes, saved \in BOOLEAN :
         \E r \in {run_fetch(fetched, saved)} :
            IF r.kind = "raise"
            THEN /\ outcome' = r
                 /\ run' = [run EXCEPT !.stage = "failed"]
                 /\ UNCHANGED <<op, articles>>
            ELSE /\ outcome' = outcome
                 /\ run' = [run EXCEPT !.stage = "analyze",
                                       !.files = Append(@, "raw_articles.json")]
                 /\ op' = "analyze_batch"
                 /\ articles' = fetched.what
    /\ UNCHANGED <<analyses, retry_count, text, vtext, fetch, idx, results, delays,
                   attempt, ipc, ival, ireq, islept, last, calls>>

\* validate_batch is called as soon as the first article has its entry
RunAnalysesDoneEarly ==
    /\ run.stage = "analyze"
    /\ op = "analyze_batch"
    /\ ipc = "idle"
    /\ Len(results) >= 1
    /\ op' = "validate_batch"
    /\ analyses' = results
    /\ run' = [run EXCEPT !.stage = "validate"]
    /\ idx' = 1
    /\ results' = <<>>
    /\ delays' = <<>>
    /\ calls' = 0
    /\ outcome' = Pending
    /\ UNCHANGED <<articles, retry_count, text, vtext, fetch, attempt, ipc, ival, ireq, islept, last>>

\* lines 103-110: analyze_batch has returned and validate_batch is called
\* with the same articles and the list it returned
RunAnalysesDone ==
    /\ run.stage = "analyze"
    /\ op = "analyze_batch"
    /\ outcome.kind = "return"
    /\ op' = "validate_batch"
    /\ analyses' = outcome.what
    /\ run' = [run EXCEPT !.stage = "validate"]
    /\ idx' = 1
    /\ results' = <<>>
    /\ delays' = <<>>
    /\ calls' = 0
    /\ outcome' = Pending
    /\ UNCHANGED <<articles, retry_count, text, vtext, fetch, attempt, ipc, ival, ireq,
                   islept, last>>

\* what the lines after validate_batch come to
RunEnd(res, validations, combined, files, statistics) ==
    [res |-> res, validations |-> validations, combined |-> combined, files |-> files,
     statistics |-> statistics]

\* an exception of the late stages is logged and the run returns without
\* statistics
run_tail_swallows(arts, anas, validated, query, saved_results, saved_report) ==
    IF validated.kind = "raise"
    THEN RunEnd(Return([success |-> BoolV(TRUE)]), <<>>, <<>>, <<>>, NoStatistics)
    ELSE LET c == combine_results(arts, anas, validated.what)
         IN IF c.kind = "raise" \/ ~saved_results \/ ~saved_report
            THEN RunEnd(Return([success |-> BoolV(TRUE)]), validated.what, <<>>, <<>>,
                        NoStatistics)
            ELSE RunEnd(Return([success |-> BoolV(TRUE),
                                statistics |-> calculate_statistics(c.what, Elapsed),
                                output_dir |-> StrV("output")]),
                        validated.what, c.what,
                        <<"analysis_results.json", "final_report.md">>,
                        calculate_statistics(c.what, Elapsed))

\* lines 110-150, from the end of validate_batch on: the results are combined
\* and saved, the report is generated and saved, the statistics are
\* calculated; whatever is raised on the way leaves run as it is
run_tail(arts, anas, validated, query, saved_results, saved_report) ==
    IF validated.kind = "raise"
    THEN RunEnd(validated, <<>>, <<>>, <<>>, NoStatistics)
    ELSE LET c == combine_results(arts, anas, validated.what)
         IN IF c.kind = "raise"
            THEN RunEnd(c, validated.what, <<>>, <<>>, NoStatistics)
            ELSE IF ~saved_results
            THEN RunEnd(Raise("OSError", "analysis_results.json"), validated.what, c.what,
                        <<>>, NoStatistics)
            ELSE IF generate_report(c.what, query).kind = "raise"
            THEN RunEnd(generate_report(c.what, query), validated.what, c.what,
                        <<"analysis_results.json">>, NoStatistics)
            ELSE IF ~saved_report
            THEN RunEnd(Raise("OSError", "final_report.md"), validated.what, c.what,
                        <<"analysis_results.json">>, NoStatistics)
            ELSE RunEnd(Return([success |-> BoolV(TRUE),
                                statistics |-> calculate_statistics(c.what, Elapsed),
                                output_dir |-> StrV("output")]),
                        validated.what, c.what,
                        <<"analysis_results.json", "final_report.md">>,
                        calculate_statistics(c.what, Elapsed))

\* lines 110-150: validate_batch has ended and run goes to its end
RunValidationsDone ==
    /\ run.stage = "validate"
    /\ op = "validate_batch"
    /\ outcome.kind # "none"
    /\ \E saved_results \in BOOLEAN, saved_report \in BOOLEAN :
         \E r \in {run_tail(articles, analyses, outcome, run.query, saved_results,
                            saved_report)} :
            /\ outcome' = r.res
            /\ run' = [run EXCEPT !.stage = IF r.res.kind = "return" THEN "done"
                                                                    ELSE "failed",
                                  !.validations = r.validations,
                                  !.combined = r.combined,
                                  !.files = @ \o r.files,
                                  !.statistics = r.statistics]
    /\ op' = "run"
    /\ UNCHANGED <<articles, analyses, retry_count, text, vtext, fetch, idx, results, delays,
                   attempt, ipc, ival, ireq, islept, last, calls>>

\* ------------------------------------------------------------------------
\* Specifications
\* ------------------------------------------------------------------------

\* a call of one of `ops` begins, with arguments drawn from the samples
Begin(ops) ==
    /\ op \in ops
    /\ \/ /\ op = "analyze_article"
          /\ articles \in {<<a>> : a \in ArticleSamples}
          /\ analyses = <<>>
          /\ retry_count \in 0..MaxRetry
          /\ text = ""
       \/ /\ op = "analyze_batch"
          /\ articles \in SeqUpTo(BatchArticleSamples, MaxArticles)
          /\ analyses = <<>>
          /\ retry_count = DefaultRetryCount
          /\ text = ""
       \/ /\ op = "validate_analysis"
          /\ articles \in {<<a>> : a \in ValidatorArticleSamples}
          /\ analyses \in {<<a>> : a \in AnalysisSamples}
          /\ retry_count \in 0..MaxRetry
          /\ text = ""
       \/ /\ op = "validate_batch"
          /\ articles \in SeqUpTo(BatchValidatorArticleSamples, MaxArticles)
          /\ analyses \in SeqUpTo(BatchAnalysisSamples, MaxArticles)
          /\ retry_count = DefaultRetryCount
          /\ text = ""
       \/ /\ op = "parse_response"
          /\ articles = <<>>
          /\ analyses = <<>>
          /\ retry_count = DefaultRetryCount
          /\ text \in ParseTexts
       \/ /\ op \in {"parse_validation", "run", "fetch_articles"}
          /\ articles = <<>>
          /\ analyses = <<>>
          /\ retry_count = DefaultRetryCount
          /\ text = ""
    /\ vtext \in (IF op = "parse_validation" THEN ValidationTexts ELSE {NoneV})
    /\ run = (IF op = "run" THEN StartRun ELSE NoRun)
    /\ fetch \in (IF op = "fetch_articles"
                  THEN {StartFetch(q, m) : q \in QuerySamples, m \in MaxArticlesSamples}
                  ELSE {NoFetch})
    /\ idx = 1
    /\ results = <<>>
    /\ delays = <<>>
    /\ attempt = 0
    /\ ipc = "idle"
    /\ ival = Pending
    /\ ireq = 0
    /\ islept = <<>>
    /\ last = NoAttempt
    /\ calls = 0
    /\ outcome = Pending

\* the analyzer and the validator, called on one item or on a batch
Init == Begin({"analyze_article", "analyze_batch", "validate_analysis", "validate_batch"})

Next ==
    \/ AnalyzeEnter
    \/ AnalyzeAttempt
    \/ AnalyzeFallThrough
    \/ AnalyzeBatchCollect
    \/ AnalyzeBatchReturn
    \/ ValidateEnter
    \/ ValidateAttempt
    \/ ValidateFallThrough
    \/ ValidateBatchRejects
    \/ ValidateBatchCollect
    \/ ValidateBatchReturn
    \/ SingleCallEnds

Spec == Init /\ [][Next]_vars


\* one run of the pipeline, from the call of run to its return or its raise
InitRun == Begin({"run"})

NextRun ==
    \/ RunFetch
    \/ AnalyzeEnter
    \/ AnalyzeAttempt
    \/ AnalyzeBatchCollect
    \/ AnalyzeBatchReturn
    \/ RunAnalysesDone
    \/ ValidateEnter
    \/ ValidateAttempt
    \/ ValidateBatchCollect
    \/ ValidateBatchReturn
    \/ RunValidationsDone

SpecRun == InitRun /\ [][NextRun]_vars

\* fetch_articles called on its own
InitFetch == Begin({"fetch_articles"})

NextFetch == FetchEnter \/ FetchRespond

SpecFetch == InitFetch /\ [][NextFetch]_vars

\* lines 85-103 of run, on what fetch_articles itself has ended with: its
\* exception or an empty list ends the run, otherwise the raw articles are
\* saved and the list is handed to analyze_batch
RunFetched ==
    /\ op = "fetch_articles"
    /\ fetch.stage = "ended"
    /\ outcome.kind # "none"
    /\ \E saved \in BOOLEAN :
         \E r \in {run_fetch(outcome, saved)} :
            IF r.kind = "raise"
            THEN /\ outcome' = r
                 /\ run' = [StartRun EXCEPT !.stage = "failed"]
                 /\ op' = "run"
                 /\ articles' = articles
            ELSE /\ outcome' = Pending
                 /\ run' = [StartRun EXCEPT !.stage = "analyze",
                                            !.files = Append(@, "raw_articles.json")]
                 /\ op' = "analyze_batch"
                 /\ articles' = outcome.what
    /\ fetch' = NoFetch
    /\ calls' = 0
    /\ UNCHANGED <<analyses, retry_count, text, vtext, idx, results, delays,
                   attempt, ipc, ival, ireq, islept, last>>

\* the first two stages of a run, with fetch_articles itself: the run asks
\* for at most MaxArticles articles
InitFetchRun ==
    /\ Begin({"fetch_articles"})
    /\ fetch.max_articles <= MaxArticles

NextFetchRun ==
    \/ FetchEnter
    \/ FetchRespond
    \/ RunFetched
    \/ AnalyzeEnter
    \/ AnalyzeAttempt
    \/ AnalyzeBatchCollect
    \/ AnalyzeBatchReturn

SpecFetchRun == InitFetchRun /\ [][NextFetchRun]_vars

\* the parser of the analyzer, called on a raw text
InitParse == Begin({"parse_response"})

NextParse == ParseResponse

SpecParse == InitParse /\ [][NextParse]_vars

\* the parser of the validator, called on the content of a reply
InitParseValidation == Begin({"parse_validation"})

NextParseValidation == ParseValidation

SpecParseValidation == InitParseValidation /\ [][NextParseValidation]_vars

\* both parsers
InitParsers == Begin({"parse_response", "parse_validation"})

NextParsers == ParseResponse \/ ParseValidation

SpecParsers == InitParsers /\ [][NextParsers]_vars

\* each parser called twice on the same text
NextParsersTwice ==
    \/ ParseResponse
    \/ ParseValidation
    \/ ParseResponseAgain
    \/ ParseValidationAgain

SpecParsersTwice == InitParsers /\ [][NextParsersTwice]_vars

\* ------------------------------------------------------------------------
\* Properties
\* ------------------------------------------------------------------------

InAnalyzer == op \in {"analyze_article", "analyze_batch"}

InValidator == op \in {"validate_analysis", "validate_batch"}

\* article.get('id', 'unknown')
IdOf(article) == Get(article, "id", StrV("unknown"))

\* the entry is one written for a failed item
IsSentinel(entry) == "error" \in DOMAIN entry

\* C1 (state part): while analyze_batch runs, results holds one entry for each
\* article already dealt with, entry k carrying the id of articles[k]; the
\* call never raises, and what it returns is that list, as long as the input
C1_Aligned ==
    op = "analyze_batch" =>
        /\ Len(results) = idx - 1
        /\ Len(results) <= Len(articles)
        /\ \A k \in 1..Len(results) : results[k]["article_id"] = IdOf(articles[k])
        /\ outcome.kind # "raise"
        /\ outcome.kind = "return" =>
              /\ Len(outcome.what) = Len(articles)
              /\ \A k \in 1..Len(articles) :
                    outcome.what[k]["article_id"] = IdOf(articles[k])

\* C1 (step part): a step of analyze_batch never changes or drops an entry
\* already written, whatever becomes of the item in hand
C1_EntriesKept ==
    op = "analyze_batch" =>
        /\ Len(results') >= Len(results)
        /\ \A k \in 1..Len(results) :
              /\ IsSentinel(results'[k]) = IsSentinel(results[k])
              /\ results'[k] = results[k]

\* C1: analyze_batch returns exactly one entry per input article, in input
\* order, entry k carrying the id of articles[k]; a failed item neither aborts
\* the batch nor changes the entries of the other items.
C1_OneEntryPerArticle == []C1_Aligned /\ [][C1_EntriesKept]_vars

\* C1 witness: a batch of two has returned, its first article failed after
\* three attempts and its second, of another id, succeeded
C1_Witness ==
    /\ op = "analyze_batch"
    /\ outcome.kind = "return"
    /\ Len(articles) = 2
    /\ IdOf(articles[1]) # IdOf(articles[2])
    /\ IsSentinel(outcome.what[1])
    /\ Contains(outcome.what[1]["error"].v, "after 3 attempts")
    /\ ~IsSentinel(outcome.what[2])

\* C2 (state part): with lists of equal length, results holds one entry per
\* pair dealt with, entry k carrying the id of articles[k]; an entry written for
\* a failed pair has is_valid true, the label "Validation Failed", and the error
\* text in its reasoning and in its error field; the call does not raise
C2_Aligned ==
    (op = "validate_batch" /\ Len(articles) = Len(analyses)) =>
        /\ Len(results) = idx - 1
        /\ Len(results) <= Len(articles)
        /\ \A k \in 1..Len(results) :
              /\ results[k]["article_id"] = IdOf(articles[k])
              /\ IsSentinel(results[k]) =>
                    /\ results[k]["is_valid"] = BoolV(TRUE)
                    /\ results[k]["validation_result"] = StrV(LabelFailed)
                    /\ results[k]["reasoning"] = StrV("Error: " \o results[k]["error"].v)
                    /\ results[k]["error"].v # ""
        /\ outcome.kind # "raise"
        /\ outcome.kind = "return" => Len(outcome.what) = Len(articles)

\* C2 (step part): when validate_analysis has raised for the pair in hand, the
\* next step writes the sentinel for that pair, with the text of the exception,
\* and moves on to the next pair
C2_FailureAbsorbed ==
    (op = "validate_batch" /\ ipc = "raised") =>
        /\ Len(results') = Len(results) + 1
        /\ IsSentinel(results'[idx])
        /\ results'[idx]["error"] = StrV(ival.what.msg)
        /\ idx' = idx + 1
        /\ outcome'.kind = "none"

\* C2: for equal-length inputs validate_batch returns one entry per pair,
\* index-aligned; a failed pair yields the sentinel (is_valid true, label
\* "Validation Failed", the error in reasoning and in error) and the batch
\* goes on with the next pair.
C2_ValidateBatchSentinel == []C2_Aligned /\ [][C2_FailureAbsorbed]_vars

\* C2 witness: a batch of two pairs has returned, the first pair failed after
\* its retries and the second was validated
C2_Witness ==
    /\ op = "validate_batch"
    /\ outcome.kind = "return"
    /\ Len(articles) = 2
    /\ IsSentinel(outcome.what[1])
    /\ Contains(outcome.what[1]["error"].v, "Rate limit exceeded")
    /\ ~IsSentinel(outcome.what[2])

\* C3: whenever analyze_article has raised inside analyze_batch, the entry
\* written for that article is the sentinel: gist "Analysis failed", sentiment
\* neutral, tone informative, and the text of the exception as error.
C3_AnalysisSentinel ==
    [][(op = "analyze_batch" /\ ipc = "raised") =>
          /\ Len(results') = idx
          /\ results'[idx]["gist"] = StrV("Analysis failed")
          /\ results'[idx]["sentiment"] = StrV("neutral")
          /\ results'[idx]["tone"] = StrV("informative")
          /\ IsSentinel(results'[idx])
          /\ results'[idx]["error"] = StrV(ival.what.msg)
          /\ results'[idx]["error"].v # ""]_vars

\* C3 witness: an entry has been written for an article whose analysis failed
\* on a response that did not parse
C3_Witness ==
    /\ op = "analyze_batch"
    /\ Len(results) >= 1
    /\ IsSentinel(results[Len(results)])
    /\ Contains(results[Len(results)]["error"].v, "Invalid JSON response")

\* the error class of the stage
StageError == IF InAnalyzer THEN "LLMAnalyzerError" ELSE "LLMValidatorError"

\* the text a stage's final error begins with; the text of the last cause
\* follows it (a timeout's error names the cause and has no text after it)
FinalErrorPrefix ==
    IF InAnalyzer
    THEN "Failed to analyze article " \o PyStr(IdOf(CurArticle)) \o " after "
         \o IntStr(retry_count) \o " attempts: "
    ELSE CASE last.fail = "timeout" -> "Request timeout"
           [] last.fail = "network" -> "Network error: "
           [] OTHER -> "Validation failed after " \o IntStr(retry_count) \o " attempts: "

\* C4 (state part): a call with retry_count >= 1 has issued at most retry_count
\* requests; if it has returned, it did so on the attempt that succeeded, its
\* requests being that attempt and the failed ones before it; if it has raised
\* after a request, all retry_count requests were made and failed and the
\* exception is the stage's error
C4_Bounded ==
    retry_count >= 1 =>
        /\ ireq <= retry_count
        /\ ipc = "returned" =>
              /\ last.fail = "none"
              /\ ireq = last.attempt + 1
              /\ ireq = attempt + 1
        /\ (ipc = "raised" /\ ireq > 0) =>
              /\ ireq = retry_count
              /\ last.fail # "none"
              /\ last.attempt = retry_count - 1
              /\ ival.what.type = StageError
              /\ StartsWith(ival.what.msg, FinalErrorPrefix)
              /\ Len(ival.what.msg) > Len(FinalErrorPrefix)
        /\ ipc = "loop" => (ireq = attempt /\ attempt < retry_count)

\* C4 (step part): once the call has returned or raised, no request follows
C4_NoRequestAfterEnd ==
    (ipc \in {"returned", "raised"}) => calls' = calls

\* C4: for max_attempts >= 1, analyze and validate issue at most max_attempts
\* requests per call; the first successful attempt returns and no request
\* follows it; if every attempt fails the call raises the stage's error after
\* exactly max_attempts requests, without a further retry and without a result.
C4_AtMostMaxAttempts == []C4_Bounded /\ [][C4_NoRequestAfterEnd]_vars

\* C4 witness: a validation with two attempts allowed has raised after its
\* second request
C4_Witness ==
    /\ op = "validate_analysis"
    /\ retry_count = 2
    /\ ipc = "raised"
    /\ ireq = 2
    /\ last.fail = "rate_limit"

\* the last attempt of the analyzer failed and was not the final one
FailedNotFinal == InAnalyzer /\ last.fail # "none" /\ last.attempt < retry_count - 1

\* no sleep before the first attempt, none after the final one, none after a
\* success: as many sleeps as attempts that failed and were not the final one
SleepsOnlyBetweenAttempts ==
    InAnalyzer =>
        /\ ipc = "loop" => Len(islept) = attempt
        /\ ipc = "returned" /\ ireq > 0 => Len(islept) = ireq - 1
        /\ ipc = "raised" /\ ireq > 0 => Len(islept) = ireq - 1
        /\ ireq = 0 => islept = <<>>
        /\ (last.fail = "none" \/ last.attempt >= retry_count - 1) => last.slept = 0

\* C5 as stated: in analyze, a failed attempt i that is not the final one is
\* followed by a sleep of exactly 2^i seconds, whatever the kind of failure; no
\* sleep precedes attempt 0 and none follows the final attempt.
C5_AlwaysExponential ==
    /\ SleepsOnlyBetweenAttempts
    /\ FailedNotFinal => last.slept = Pow2(last.attempt)

\* C5 as amended: a failed attempt i that is not the final one is followed by a
\* sleep of 2^i seconds when it failed by an exception of the model call or by
\* a response that did not parse, and of 1 second when the response was empty;
\* no sleep precedes attempt 0 and none follows the final attempt.
C5_BackoffByFailureKind ==
    /\ SleepsOnlyBetweenAttempts
    /\ (FailedNotFinal /\ last.fail \in {"exception", "parse"}) =>
          last.slept = Pow2(last.attempt)
    /\ (FailedNotFinal /\ last.fail = "empty") => last.slept = 1
    /\ FailedNotFinal => last.fail \in {"exception", "parse", "empty"}

\* C5 witness: the second attempt (i = 1) met an empty response and was
\* followed by a sleep of 1 second, and the first by an exception and 2^0
C5_Witness ==
    /\ op = "analyze_article"
    /\ retry_count = 3
    /\ last.fail = "empty"
    /\ last.attempt = 1
    /\ islept = <<1, 1>>

\* the exponential case: an exception on attempt 1 was followed by 2 seconds
C5_WitnessExponential ==
    /\ op = "analyze_article"
    /\ last.fail = "exception"
    /\ last.attempt = 1
    /\ last.slept = 2

\* the article lacks full_text, or its full_text trimmed is under 30 characters
TooShortForAnalysis(article) ==
    \/ "full_text" \notin DOMAIN article
    \/ /\ article["full_text"].t = "str"
       /\ Len(Strip(article["full_text"].v)) < 30

\* C6: for an article that lacks full_text or whose trimmed full_text is
\* shorter than 30 characters, analyze_article raises ValueError with no
\* request to the model made, no attempt used and no sleep.
C6_ShortTextFailsFast ==
    (InAnalyzer /\ ipc # "idle" /\ TooShortForAnalysis(CurArticle)) =>
        /\ ipc = "raised"
        /\ ival.what.type = "ValueError"
        /\ ireq = 0
        /\ attempt = 0
        /\ islept = <<>>
        /\ last = NoAttempt
        /\ op = "analyze_article" => calls = 0

\* C6 witness: the article whose text is 39 characters long and 29 trimmed
\* has been turned down
C6_Witness ==
    /\ op = "analyze_article"
    /\ CurArticle = Article(3, "Weather", Text29)
    /\ Len(Text29) > 30
    /\ Len(Strip(Text29)) = 29
    /\ outcome.kind = "raise"
    /\ outcome.what.msg = "Article 3 text too short for analysis"

\* C7: validate_batch called with lists of different lengths raises
\* ValueError at once: no request is made, no entry is written, no pair is
\* entered, and nothing is returned.
C7_LengthMismatch ==
    (op = "validate_batch" /\ Len(articles) # Len(analyses)) =>
        /\ calls = 0
        /\ results = <<>>
        /\ ipc = "idle"
        /\ idx = 1
        /\ outcome.kind \in {"none", "raise"}
        /\ outcome.kind = "none" => ENABLED ValidateBatchRejects
        /\ outcome.kind = "raise" =>
              /\ outcome.what.type = "ValueError"
              /\ outcome.what.msg = "Articles and analyses lists must have same length"

\* C7 witness: one article and two analyses, and the call has raised
C7_Witness ==
    /\ op = "validate_batch"
    /\ Len(articles) = 1
    /\ Len(analyses) = 2
    /\ outcome.kind = "raise"

\* the pair violates a precondition of validate_analysis
LacksValidationInput(article, analysis) ==
    \/ "full_text" \notin DOMAIN article
    \/ "gist" \notin DOMAIN analysis
    \/ "sentiment" \notin DOMAIN analysis

InVocabulary(entry) ==
    /\ entry["sentiment"].t = "str"
    /\ entry["sentiment"].v \in valid_sentiments
    /\ entry["tone"].t = "str"
    /\ entry["tone"].v \in valid_tones

\* C9: every analysis that analyze_article returns and every entry, result or
\* sentinel, that analyze_batch writes has its sentiment in {positive,
\* negative, neutral} and its tone among the eight tones.
C9_ClosedVocabulary ==
    InAnalyzer =>
        /\ (ipc = "returned" /\ ireq > 0) => InVocabulary(ival.what)
        /\ \A k \in 1..Len(results) : InVocabulary(results[k])
        /\ (op = "analyze_batch" /\ outcome.kind = "return") =>
              \A k \in 1..Len(outcome.what) : InVocabulary(outcome.what[k])

\* C9 witness: the model answered with the sentiment "very_positive" and the
\* tone "sarcastic", and the analysis returned says neutral and informative
C9_Witness ==
    /\ op = "analyze_batch"
    /\ ipc = "returned"
    /\ Contains(ival.what["raw_response"].v, "very_positive")
    /\ Contains(ival.what["raw_response"].v, "sarcastic")
    /\ ival.what["sentiment"] = StrV("neutral")
    /\ ival.what["tone"] = StrV("informative")

\* the raw text, its fence taken off, is a JSON object that has the three keys
HasAllFields(raw) ==
    /\ JsonLoads(CleanResponse(raw)).ok
    /\ JsonLoads(CleanResponse(raw)).doc.t = "dict"
    /\ AnalysisKeys \subseteq DOMAIN JsonLoads(CleanResponse(raw)).doc.v

\* s lower-cased and trimmed if that is in the vocabulary, the default if not
Normalized(s, vocabulary, default) ==
    IF Strip(Lower(s)) \in vocabulary THEN Strip(Lower(s)) ELSE default

\* C10: for every valid JSON response that has gist, sentiment and tone,
\* _parse_response raises nothing and returns the sentiment and the tone
\* lower-cased and trimmed when that is in the vocabulary, neutral and
\* informative when it is not.
C10_NormalizesEveryObject ==
    (op = "parse_response" /\ outcome.kind # "none" /\ HasAllFields(text)) =>
        /\ outcome.kind = "return"
        /\ outcome.what["sentiment"].v
              = Normalized(JsonLoads(CleanResponse(text)).doc.v["sentiment"].v, valid_sentiments, "neutral")
        /\ outcome.what["tone"].v
              = Normalized(JsonLoads(CleanResponse(text)).doc.v["tone"].v, valid_tones, "informative")

\* the raw text, its fence taken off, is no JSON
NotJson(raw) == ~JsonLoads(CleanResponse(raw)).ok

\* C11: _parse_response of a text that is no JSON, or that is JSON without
\* one of the keys gist, sentiment, tone, raises LLMAnalyzerError: "Invalid
\* JSON response" for the first, "Failed to parse response" for the second;
\* nothing is returned.
C11_MalformedAnalysisRaises ==
    (op = "parse_response" /\ outcome.kind # "none" /\ ~HasAllFields(text)) =>
        /\ outcome.kind = "raise"
        /\ outcome.what.type = "LLMAnalyzerError"
        /\ StartsWith(outcome.what.msg,
                      IF NotJson(text) THEN "Invalid JSON response: "
                                       ELSE "Failed to parse response: ")

\* C11 witness: an object with sentiment and tone and no gist has been turned
\* down
C11_Witness ==
    /\ op = "parse_response"
    /\ text = JsonText[DictV([sentiment |-> StrV("positive"), tone |-> StrV("urgent")])]
    /\ outcome.kind = "raise"
    /\ outcome.what.msg = "Failed to parse response: Missing required field: gist"

\* text that is no JSON at all has been turned down
C11_WitnessNotJson ==
    /\ op = "parse_response"
    /\ text = "This is not JSON"
    /\ outcome.kind = "raise"
    /\ outcome.what.type = "LLMAnalyzerError"

\* _parse_validation has been called on its own and has ended
ValidationParsed == op = "parse_validation" /\ outcome.kind # "none"

\* what _parse_validation returned is a validation record: a dict that has
\* the four keys
IsValidationRecord(x) == x.t = "dict" /\ ValidationKeys \subseteq DOMAIN x.v

\* C12 as stated: _parse_validation never raises; whatever the content (a
\* JSON object, JSON that is no object, text that is no JSON, the empty text,
\* None) it returns a validation record.
C12_ValidationParseNeverRaises ==
    ValidationParsed =>
        /\ outcome.kind = "return"
        /\ IsValidationRecord(outcome.what)

\* _parse_validation has ended on a str that, trimmed and its fence lines
\* dropped, is no JSON
FallbackTaken ==
    /\ ValidationParsed
    /\ vtext.t = "str"
    /\ ~JsonLoads(CleanValidation(vtext.v)).ok

\* the lower-cased text has one of the two keywords
HasKeyword(s) == Contains(Lower(s), "correct") \/ Contains(Lower(s), "accurate")

\* the record returned has is_valid = (s has a keyword), for reasoning the
\* first 200 characters of s, and no corrections
FallbackRecordOf(s) ==
    /\ outcome.kind = "return"
    /\ IsValidationRecord(outcome.what)
    /\ outcome.what.v["is_valid"].t = "bool"
    /\ outcome.what.v["is_valid"].v = HasKeyword(s)
    /\ outcome.what.v["reasoning"].t = "str"
    /\ outcome.what.v["reasoning"].v = Prefix(s, 200)
    /\ Len(outcome.what.v["reasoning"].v) <= 200
    /\ outcome.what.v["corrections"].t = "dict"
    /\ DOMAIN outcome.what.v["corrections"].v = {}

\* C13 as stated: when the response is no JSON, is_valid is true exactly
\* when the lower-cased raw text has "correct" or "accurate", reasoning is the
\* first 200 characters of the raw text, and corrections is empty.
C13_FallbackOnRawText == FallbackTaken => FallbackRecordOf(vtext.v)

\* C13 as amended: the same, of the text as it is handed to json.loads:
\* trimmed and, when it begins with a fence, without its fence lines.
C13_FallbackOnCleanedText == FallbackTaken => FallbackRecordOf(CleanValidation(vtext.v))

\* C13 witness: a padded, upper-case reply was found valid and its reasoning
\* is the reply without the padding
C13_Witness ==
    /\ FallbackTaken
    /\ vtext.v = "  Looks ACCURATE to me.  "
    /\ outcome.what.v["is_valid"].v = TRUE
    /\ outcome.what.v["reasoning"].v = "Looks ACCURATE to me."

\* a reply of more than 200 characters whose keyword lies past them was found
\* valid, and its reasoning is cut at 200
C13_WitnessCut ==
    /\ FallbackTaken
    /\ vtext.v = LateKeywordText
    /\ Len(vtext.v) > 200
    /\ outcome.what.v["is_valid"].v = TRUE
    /\ Len(outcome.what.v["reasoning"].v) = 200
    /\ ~HasKeyword(outcome.what.v["reasoning"].v)

\* _parse_validation has ended on the reply s
ParsedReply(s) == ValidationParsed /\ vtext.t = "str" /\ vtext.v = s

\* is_valid of the record returned
ReturnedIsValid == outcome.what.v["is_valid"]

\* C14 as stated: the keyword fallback finds "The analysis looks correct and
\* accurate." valid and "This is wrong and inaccurate." not valid.
C14_KeywordExamples ==
    /\ ParsedReply("The analysis looks correct and accurate.") =>
          (outcome.kind = "return" /\ ReturnedIsValid.t = "bool" /\ ReturnedIsValid.v = TRUE)
    /\ ParsedReply("This is wrong and inaccurate.") =>
          (outcome.kind = "return" /\ ReturnedIsValid.t = "bool" /\ ReturnedIsValid.v = FALSE)

RECURSIVE SameValue(_, _)
\* two Python values are equal
SameValue(x, y) ==
    /\ x.t = y.t
    /\ CASE x.t = "dict" -> /\ DOMAIN x.v = DOMAIN y.v
                            /\ \A k \in DOMAIN x.v : SameValue(x.v[k], y.v[k])
         [] x.t = "list" -> /\ Len(x.v) = Len(y.v)
                            /\ \A i \in 1..Len(x.v) : SameValue(x.v[i], y.v[i])
         [] x.t = "none" -> TRUE
         [] OTHER -> x.v = y.v

\* two calls ended the same way: the same exception, or equal values
SameOutcome(a, b) ==
    /\ a.kind = b.kind
    /\ a.kind = "raise" => (a.what.type = b.what.type /\ a.what.msg = b.what.msg)
    /\ a.kind = "return" =>
          IF "t" \in DOMAIN a.what
          THEN "t" \in DOMAIN b.what /\ SameValue(a.what, b.what)
          ELSE /\ DOMAIN a.what = DOMAIN b.what
               /\ \A k \in DOMAIN a.what : SameValue(a.what[k], b.what[k])

\* the texts of the JSON objects of the two schemas
ObjectTexts(objects) == { JsonText[d] : d \in objects }

\* C15 as stated: for both schemas, a JSON object inside a code fence, the
\* markers on lines of their own or on the line of the JSON, parses to what
\* the same object parses to without the fence.
C15_FenceIsTransparent ==
    /\ (op = "parse_response" /\ outcome.kind # "none") =>
          \A json \in ObjectTexts(AnalysisObjects) :
              text \in {FenceOwnLines(json), FenceSameLine(json)} =>
                  SameOutcome(outcome, parse_response(json))
    /\ (ValidationParsed /\ vtext.t = "str") =>
          \A json \in ObjectTexts(ValidationObjects) :
              vtext.v \in {FenceOwnLines(json), FenceSameLine(json)} =>
                  SameOutcome(outcome, parse_validation(StrV(json)))

\* the part of C15 that holds: a fence whose markers are on lines of their
\* own, the closing one not indented, is transparent for both schemas
FenceOnOwnLinesIsTransparent ==
    /\ (op = "parse_response" /\ outcome.kind # "none") =>
          \A json \in ObjectTexts(AnalysisObjects) :
              text = FenceOwnLines(json) => SameOutcome(outcome, parse_response(json))
    /\ (ValidationParsed /\ vtext.t = "str") =>
          \A json \in ObjectTexts(ValidationObjects) :
              vtext.v = FenceOwnLines(json) =>
                  SameOutcome(outcome, parse_validation(StrV(json)))

\* the document json.loads yields for the content, trimmed and its fence
\* lines dropped
LoadedObject == JsonLoads(CleanValidation(vtext.v)).doc

\* _parse_validation has ended on a content that is a JSON object
IsJsonObjectReply ==
    /\ ValidationParsed
    /\ vtext.t = "str"
    /\ JsonLoads(CleanValidation(vtext.v)).ok
    /\ LoadedObject.t = "dict"

\* C16: for a validation response that is a JSON object, the record returned
\* has the object's keys with their values unchanged and, for each of the four
\* keys it lacks, the default: is_valid true; result "Correct" when is_valid
\* (given or defaulted) is true and "Issues Found" when it is false (a value
\* that is no bool counts by its truth value); reasoning "Validation
\* completed"; corrections the empty mapping.
C16_ValidationDefaults ==
    IsJsonObjectReply =>
        /\ outcome.kind = "return"
        /\ outcome.what.t = "dict"
        /\ DOMAIN outcome.what.v = DOMAIN LoadedObject.v \cup ValidationKeys
        /\ \A k \in DOMAIN LoadedObject.v : SameValue(outcome.what.v[k], LoadedObject.v[k])
        /\ "is_valid" \notin DOMAIN LoadedObject.v =>
              SameValue(outcome.what.v["is_valid"], BoolV(TRUE))
        /\ "result" \notin DOMAIN LoadedObject.v =>
              /\ SameValue(outcome.what.v["is_valid"], BoolV(TRUE)) =>
                    SameValue(outcome.what.v["result"], StrV(LabelCorrect))
              /\ SameValue(outcome.what.v["is_valid"], BoolV(FALSE)) =>
                    SameValue(outcome.what.v["result"], StrV(LabelIssues))
              /\ outcome.what.v["result"].t = "str"
              /\ outcome.what.v["result"].v =
                    (IF Truthy(outcome.what.v["is_valid"]) THEN LabelCorrect ELSE LabelIssues)
        /\ "reasoning" \notin DOMAIN LoadedObject.v =>
              SameValue(outcome.what.v["reasoning"], StrV("Validation completed"))
        /\ "corrections" \notin DOMAIN LoadedObject.v =>
              SameValue(outcome.what.v["corrections"], DictV(EmptyDict))

\* C16 witness: the empty object got all four defaults, the label "Correct"
\* coming from the defaulted is_valid
C16_Witness ==
    /\ ParsedReply("{}")
    /\ outcome.kind = "return"
    /\ SameValue(outcome.what,
                 DictV([is_valid |-> BoolV(TRUE), result |-> StrV(LabelCorrect),
                        reasoning |-> StrV("Validation completed"),
                        corrections |-> DictV(EmptyDict)]))

\* an object that says is_valid false and no more got the label "Issues Found"
C16_WitnessIssues ==
    /\ ParsedReply("{\"is_valid\": false}")
    /\ outcome.kind = "return"
    /\ SameValue(outcome.what.v["result"], StrV(LabelIssues))
    /\ SameValue(outcome.what.v["is_valid"], BoolV(FALSE))

\* ------------------------------------------------------------------------
\* C17
\* ------------------------------------------------------------------------

\* a run has returned
RunDone == op = "run" /\ run.stage = "done"

\* the positions of the run's analyses that stand for a failed article
FailedAt == {k \in 1..Len(analyses) : IsSentinel(analyses[k])}

\* the positions of the analyses that succeeded with sentiment s
SucceededWith(s) ==
    {k \in 1..Len(analyses) : ~IsSentinel(analyses[k]) /\ analyses[k].sentiment = StrV(s)}

\* C17: when a run over n articles has returned, its statistics give
\* total_articles = n, the successful analyses are counted under their
\* sentiment and every failed analysis is counted under neutral (so 3
\* articles with 2 positive analyses and 1 failed one give positive 2,
\* negative 0, neutral 1), and the combined record at the position of a
\* failed analysis is made of the article and of the validation at that
\* same position.
C17_FailedCountedNeutral ==
    RunDone =>
        /\ run.statistics.total_articles = Len(articles)
        /\ run.statistics.sentiment_distribution["positive"]
               = Cardinality(SucceededWith("positive"))
        /\ run.statistics.sentiment_distribution["negative"]
               = Cardinality(SucceededWith("negative"))
        /\ run.statistics.sentiment_distribution["neutral"]
               = Cardinality(FailedAt) + Cardinality(SucceededWith("neutral"))
        /\ (/\ Len(articles) = 3
            /\ Cardinality(SucceededWith("positive")) = 2
            /\ Cardinality(FailedAt) = 1)
           => /\ run.statistics.sentiment_distribution["positive"] = 2
              /\ run.statistics.sentiment_distribution["negative"] = 0
              /\ run.statistics.sentiment_distribution["neutral"] = 1
        /\ Len(run.combined) = Len(articles)
        /\ \A k \in FailedAt :
              /\ run.combined[k].article.id = articles[k].id
              /\ run.combined[k].article.title = articles[k].title
              /\ run.combined[k].analysis.gist = StrV("Analysis failed")
              /\ run.combined[k].analysis.sentiment = StrV("neutral")
              /\ run.combined[k].validation.is_valid = run.validations[k].is_valid
              /\ run.combined[k].validation.result = run.validations[k].validation_result
              /\ run.combined[k].validation.reasoning = run.validations[k].reasoning
              /\ run.validations[k].article_id = articles[k].id

\* a run over 3 articles has returned: the first analysis failed and the two
\* others are positive, and the validation of the second failed while that
\* of the first did not
C17_Witness ==
    /\ RunDone
    /\ Len(articles) = 3
    /\ FailedAt = {1}
    /\ SucceededWith("positive") = {2, 3}
    /\ run.statistics.total_articles = 3
    /\ run.statistics.sentiment_distribution["neutral"] = 1
    /\ IsSentinel(run.validations[2])
    /\ ~IsSentinel(run.validations[1])
    /\ run.combined[1].validation.result = StrV(LabelIssues)
    /\ run.combined[2].validation.result = StrV(LabelFailed)

\* ------------------------------------------------------------------------
\* C18
\* ------------------------------------------------------------------------

\* the lists have the length of arts and at every position the analysis and
\* the validation carry the id of the article
SameArticleAt(arts, anas, vals) ==
    /\ Len(anas) = Len(arts)
    /\ Len(vals) = Len(arts)
    /\ \A k \in 1..Len(arts) :
          /\ "id" \in DOMAIN arts[k]
          /\ anas[k].article_id = arts[k].id
          /\ vals[k].article_id = arts[k].id

\* the combined results are, position by position, made of the article, the
\* analysis and the validation at that position
JoinedInOrder(combined, arts, anas, vals) ==
    /\ Len(combined) = Len(arts)
    /\ \A k \in 1..Len(combined) :
          /\ combined[k].article.id = arts[k].id
          /\ combined[k].article.title = arts[k].title
          /\ combined[k].analysis.gist = anas[k].gist
          /\ combined[k].analysis.sentiment = anas[k].sentiment
          /\ combined[k].analysis.tone = anas[k].tone
          /\ combined[k].validation.is_valid = vals[k].is_valid
          /\ combined[k].validation.result = vals[k].validation_result
          /\ combined[k].validation.reasoning = vals[k].reasoning

\* C18: in every run, whatever items failed, the analyses handed to
\* validate_batch are as many as the articles and carry their ids position
\* by position; the articles, analyses and validations handed to
\* _combine_results have equal length and at every position carry the same
\* article id; and every combined result is made of the three records at its
\* position, in the order of the fetched list.
C18_SameArticleAtEveryIndex ==
    /\ (op = "validate_batch" /\ run.stage = "validate")
          => /\ Len(analyses) = Len(articles)
             /\ \A k \in 1..Len(articles) : analyses[k].article_id = articles[k].id
    /\ (op = "validate_batch" /\ run.stage = "validate" /\ outcome.kind = "return")
          => SameArticleAt(articles, analyses, outcome.what)
    /\ (op = "run" /\ run.stage \in {"done", "failed"} /\ Len(run.validations) > 0)
          => /\ SameArticleAt(articles, analyses, run.validations)
             /\ Len(run.combined) > 0
                   => JoinedInOrder(run.combined, articles, analyses, run.validations)

\* a run over the articles 1 and 3 has returned; the analysis of the first
\* succeeded and that of the second failed, the validation of the first
\* failed and that of the second did not
C18_Witness ==
    /\ RunDone
    /\ Len(articles) = 2
    /\ articles[1].id = IntV(1)
    /\ articles[2].id = IntV(3)
    /\ FailedAt = {2}
    /\ IsSentinel(run.validations[1])
    /\ ~IsSentinel(run.validations[2])
    /\ run.combined[2].article.id = IntV(3)
    /\ run.combined[1].analysis.sentiment = StrV("negative")

\* ------------------------------------------------------------------------
\* C19
\* ------------------------------------------------------------------------

\* a run has ended with the error of lines 91-92
NoneFetched ==
    /\ op = "run"
    /\ outcome.kind = "raise"
    /\ outcome.what.type = "ValueError"
    /\ outcome.what.msg = "No articles fetched"

\* the run has not gone past the fetch: no article was handed on, no
\* single-item call was entered, no request was issued, and no list, file or
\* statistics were produced
NothingDone ==
    /\ articles = <<>>
    /\ analyses = <<>>
    /\ results = <<>>
    /\ calls = 0
    /\ ireq = 0
    /\ ipc = "idle"
    /\ last.attempt = NoAttempt.attempt
    /\ run.validations = <<>>
    /\ run.combined = <<>>
    /\ run.files = <<>>
    /\ run.statistics.total_articles = NoStatistics.total_articles

\* C19: a run goes past the fetch only with at least one article: while no
\* article is in hand nothing has been requested or produced, the run that
\* fetched none ends with ValueError "No articles fetched", and from there
\* nothing more happens.
C19_NoArticlesAborts ==
    /\ [](op = "run" /\ run.stage = "start" => NothingDone)
    /\ [](run.stage \notin {"none", "start", "failed"} => Len(articles) > 0)
    /\ [](NoneFetched => run.stage = "failed" /\ NothingDone)
    /\ [][NoneFetched => UNCHANGED vars]_vars

\* the run has failed because the fetch returned no article
C19_Witness == NoneFetched /\ run.stage = "failed" /\ NothingDone

\* ------------------------------------------------------------------------
\* C20
\* ------------------------------------------------------------------------

\* the files a run writes, in the order it writes them
RunFiles == <<"raw_articles.json", "analysis_results.json", "final_report.md">>

\* every stage of the run has completed: the three lists have one entry per
\* fetched article, the three files are written, the statistics are made
EveryStageCompleted ==
    /\ Len(articles) > 0
    /\ Len(analyses) = Len(articles)
    /\ Len(run.validations) = Len(articles)
    /\ Len(run.combined) = Len(articles)
    /\ run.files = RunFiles
    /\ run.statistics.total_articles = Len(articles)

\* the run has raised e, having written the first n of its files
RaisedAfter(type, n) ==
    /\ outcome.kind = "raise"
    /\ outcome.what.type = type
    /\ run.files = SubSeq(RunFiles, 1, n)

\* the run has ended with an exception and with no result
RunAborted ==
    /\ op = "run"
    /\ run.stage = "failed"
    /\ outcome.kind = "raise"
    /\ run.statistics.total_articles = NoStatistics.total_articles
    /\ \/ RaisedAfter("NewsAPIError", 0) /\ articles = <<>>
       \/ RaisedAfter("ValueError", 0) /\ articles = <<>>
       \/ RaisedAfter("OSError", 0) /\ outcome.what.msg = RunFiles[1] /\ articles = <<>>
       \/ RaisedAfter("KeyError", 1) /\ run.combined = <<>>
       \/ RaisedAfter("OSError", 1) /\ outcome.what.msg = RunFiles[2]
       \/ RaisedAfter("AttributeError", 2)
       \/ RaisedAfter("OSError", 2) /\ outcome.what.msg = RunFiles[3]

\* C20: a run ends in one of two ways. It returns its success result, and
\* then every stage has completed; or an exception of the fetch, of the test
\* for no articles, of combining, of report generation or of writing a file
\* has come out of run, and then run has stopped where it was raised: the
\* files of the later stages are not written and no statistics are returned.
\* A run that has ended takes no further step.
C20_ExceptionsAbortRun ==
    /\ [](op = "run" /\ outcome.kind = "return"
            => /\ run.stage = "done"
               /\ EveryStageCompleted
               /\ outcome.what.success = BoolV(TRUE)
               /\ outcome.what.statistics.total_articles = Len(articles))
    /\ [](op = "run" /\ outcome.kind = "raise" => RunAborted)
    /\ [](run.stage = "failed" => RunAborted)
    /\ [](run.stage = "done" => op = "run" /\ outcome.kind = "return")
    /\ [][op = "run" /\ outcome.kind # "none" => UNCHANGED vars]_vars

\* a run whose batches have completed, with a failed analysis among them,
\* was aborted by the failure to write the report
C20_Witness ==
    /\ RunAborted
    /\ RaisedAfter("OSError", 2)
    /\ Len(articles) = 2
    /\ Len(run.combined) = 2
    /\ FailedAt # {}

\* a run was aborted by the failure of the fetch
C20_WitnessFetch == RunAborted /\ RaisedAfter("NewsAPIError", 0)

\* a run has returned its success result
C20_WitnessSuccess == RunDone /\ EveryStageCompleted /\ outcome.kind = "return"

\* ------------------------------------------------------------------------
\* C21
\* ------------------------------------------------------------------------

\* a single analyze_article call has raised
AnalyzeRaised == op = "analyze_article" /\ outcome.kind = "raise"

\* the text the final error of analyze_article begins with: it names the
\* article and the number of attempts
AnalyzeErrorPrefix ==
    "Failed to analyze article " \o PyStr(IdOf(CurArticle)) \o " after "
    \o IntStr(retry_count) \o " attempts: "

\* C21 as stated: whatever made analyze_article fail, it raises
\* LLMAnalyzerError, and the error names the article.
C21_UniformAnalysisError ==
    AnalyzeRaised =>
        /\ outcome.what.type = "LLMAnalyzerError"
        /\ Contains(outcome.what.msg, PyStr(IdOf(CurArticle)))

\* C21 amended: analyze_article raises in two ways. An article turned down
\* before the first request raises ValueError (AttributeError when full_text
\* is no str), not LLMAnalyzerError, and the error for a missing full_text
\* does not name the article. A call whose last attempt failed, by an
\* exception of the model call, an empty response or a response that does
\* not parse, raises LLMAnalyzerError whose text names the article id and
\* the number of attempts and ends with the text of the last cause.
C21_ErrorByFailureKind ==
    AnalyzeRaised =>
        IF ireq = 0
        THEN /\ analyze_preconditions(CurArticle).kind = "raise"
             /\ outcome.what.type = analyze_preconditions(CurArticle).what.type
             /\ outcome.what.msg = analyze_preconditions(CurArticle).what.msg
             /\ outcome.what.type \in {"ValueError", "AttributeError"}
        ELSE /\ analyze_preconditions(CurArticle).kind = "none"
             /\ ireq = retry_count
             /\ last.fail \in {"exception", "empty", "parse"}
             /\ outcome.what.type = "LLMAnalyzerError"
             /\ StartsWith(outcome.what.msg, AnalyzeErrorPrefix)
             /\ Len(outcome.what.msg) > Len(AnalyzeErrorPrefix)
             /\ last.fail = "empty"
                   => outcome.what.msg = AnalyzeErrorPrefix \o "Response was empty or blocked"
             /\ last.fail = "parse"
                   => \/ Contains(outcome.what.msg, "Invalid JSON response")
                      \/ Contains(outcome.what.msg, "Failed to parse response")
                      \/ Contains(outcome.what.msg, "Missing required field")

\* a call was ended by a response that did not parse on its last attempt
C21_Witness ==
    /\ AnalyzeRaised
    /\ last.fail = "parse"
    /\ retry_count = 2
    /\ outcome.what.type = "LLMAnalyzerError"
    /\ StartsWith(outcome.what.msg, "Failed to analyze article 1 after 2 attempts: ")

\* an article with no full_text was turned down with ValueError
C21_WitnessInvalidInput ==
    /\ AnalyzeRaised
    /\ ireq = 0
    /\ outcome.what.type = "ValueError"
    /\ outcome.what.msg = "Article must contain 'full_text' field"
    /\ "id" \in DOMAIN CurArticle

\* ------------------------------------------------------------------------
\* C22
\* ------------------------------------------------------------------------

\* a parser has been called twice on the text in hand
ParsedTwice ==
    /\ op \in {"parse_response", "parse_validation"}
    /\ outcome.kind # "none"
    /\ Len(results) = 1

C22_WitnessValidation ==
    /\ ParsedTwice
    /\ op = "parse_validation"
    /\ vtext = StrV("  Looks ACCURATE to me.  ")
    /\ results[1].kind = "return"
    /\ results[1].what.v["reasoning"] = StrV("Looks ACCURATE to me.")

\* both calls of the analysis parser raised
C22_WitnessError ==
    /\ ParsedTwice
    /\ op = "parse_response"
    /\ outcome.kind = "raise"
    /\ results[1].kind = "raise"

\* ------------------------------------------------------------------------
\* C23
\* ------------------------------------------------------------------------

\* the query is missing, empty or blank, or max_articles is not in 1..100
BadFetchParameters ==
    \/ fetch.query.t = "none"
    \/ fetch.query.t = "str" /\ \A i \in 1..Len(fetch.query.v) : IsSpace(CharAt(fetch.query.v, i))
    \/ fetch.max_articles \notin 1..100

\* a fetch_articles call has returned
FetchReturned == op = "fetch_articles" /\ fetch.stage = "ended" /\ outcome.kind = "return"

\* C23: a fetch_articles call with an empty or blank query or with
\* max_articles outside 1..100 ends with ValueError without the news service
\* having been asked; the service is asked only with accepted arguments, and
\* the call then returns at most max_articles articles.
C23_ParametersChecked ==
    op = "fetch_articles" =>
        /\ (BadFetchParameters /\ fetch.stage # "called")
              => /\ fetch.stage = "ended"
                 /\ outcome.kind = "raise"
                 /\ outcome.what.type = "ValueError"
                 /\ calls = 0
        /\ fetch.stage = "asking" => (~BadFetchParameters /\ calls = 0)
        /\ calls > 0 => ~BadFetchParameters
        /\ FetchReturned
              => /\ ~BadFetchParameters
                 /\ calls = 1
                 /\ Len(outcome.what) <= fetch.max_articles

\* the service answered with three good articles a call that asked for two,
\* and two were returned
C23_Witness ==
    /\ FetchReturned
    /\ fetch.max_articles = 2
    /\ Len(fetch.raw) = 3
    /\ Len(outcome.what) = 2

\* a call with a blank query and an accepted max_articles was turned down
C23_WitnessBlankQuery ==
    /\ op = "fetch_articles"
    /\ fetch.query = StrV("   ")
    /\ fetch.max_articles = 2
    /\ outcome.kind = "raise"
    /\ outcome.what.msg = "Query cannot be empty"
    /\ calls = 0

\* a call with max_articles = 101 was turned down
C23_WitnessTooMany ==
    /\ op = "fetch_articles"
    /\ fetch.query = StrV("India politics")
    /\ fetch.max_articles = 101
    /\ outcome.kind = "raise"
    /\ outcome.what.msg = "max_articles must be between 1 and 100"
    /\ calls = 0

\* ------------------------------------------------------------------------
\* C24
\* ------------------------------------------------------------------------

\* the raw article has no title: none, null, or blank
LacksTitle(raw) ==
    \/ "title" \notin DOMAIN raw
    \/ raw["title"].t # "str"
    \/ Strip(raw["title"].v) = ""

\* field k of the raw article is missing, null or blank
BlankField(raw, k) ==
    \/ k \notin DOMAIN raw
    \/ raw[k].t = "none"
    \/ raw[k].t = "str" /\ Strip(raw[k].v) = ""

\* the raw article has neither description nor content
LacksText(raw) == BlankField(raw, "description") /\ BlankField(raw, "content")

\* the raw articles a fetch is to leave out: those without title or text, and
\* the samples whose text is 49 or 16 characters long, or 44 up to the
\* truncation marker
ToBeDropped(raw) ==
    \/ LacksTitle(raw)
    \/ LacksText(raw)
    \/ raw \in {RawFortyNine, RawTruncated, RawShort}

\* C24: every article fetch_articles returns has a non-empty title and a
\* full_text of at least 50 characters; a raw article with no title, with
\* neither description nor content, or with a shorter text is not among the
\* returned ones (no returned article has the id of its position), and the
\* fetch whose answer holds such articles still returns.
C24_OnlyUsableArticles ==
    /\ FetchReturned =>
          /\ \A k \in 1..Len(outcome.what) :
                /\ outcome.what[k].title.t = "str"
                /\ outcome.what[k].title.v # ""
                /\ outcome.what[k].full_text.t = "str"
                /\ Len(outcome.what[k].full_text.v) >= 50
          /\ \A i \in 1..Len(fetch.raw) :
                ToBeDropped(fetch.raw[i])
                   => \A k \in 1..Len(outcome.what) : outcome.what[k].id # IntV(i)
    /\ (op = "fetch_articles" /\ fetch.stage = "ended" /\ Len(fetch.raw) > 0)
          => outcome.kind = "return"

\* the answer held a 49-character article, one with a null title and one of
\* exactly 50 characters: the last alone was returned, its title trimmed
C24_Witness ==
    /\ FetchReturned
    /\ fetch.raw = <<RawFortyNine, RawNullTitle, RawFifty>>
    /\ fetch.max_articles = 100
    /\ Len(outcome.what) = 1
    /\ outcome.what[1].title = StrV("Polls")
    /\ Len(outcome.what[1].full_text.v) = 50

\* every article of the answer was dropped and the fetch returned the empty
\* list
C24_WitnessAllDropped ==
    /\ FetchReturned
    /\ fetch.raw = <<RawNoTitle, RawNoText, RawTruncated>>
    /\ fetch.max_articles = 100
    /\ outcome.what = <<>>

\* ------------------------------------------------------------------------
\* C25
\* ------------------------------------------------------------------------

\* the ids of the returned articles, in list order
ReturnedIds == [k \in 1..Len(outcome.what) |-> outcome.what[k].id]

\* C25 as stated: the k-th article of the returned list has id k.
C25_IdIsListPosition ==
    FetchReturned => \A k \in 1..Len(outcome.what) : ReturnedIds[k] = IntV(k)

\* C25 amended: the ids of the returned articles are integers >= 1 that
\* increase along the list, so they are pairwise distinct; the id of an
\* article is 1 + its position in the answer of the news service, so the
\* k-th returned article has an id >= k, and id k exactly when no article
\* before it in the answer was dropped.
C25_IdIsRawPosition ==
    FetchReturned =>
        /\ \A k \in 1..Len(outcome.what) :
              /\ ReturnedIds[k].t = "int"
              /\ ReturnedIds[k].v >= 1
              /\ ReturnedIds[k].v >= k
              /\ ReturnedIds[k].v <= Len(fetch.raw)
              /\ ReturnedIds[k].v <= fetch.max_articles
              /\ ~ToBeDropped(fetch.raw[ReturnedIds[k].v])
              /\ outcome.what[k].title.v = Strip(fetch.raw[ReturnedIds[k].v]["title"].v)
              /\ ReturnedIds[k].v = k
                    <=> \A i \in 1..(ReturnedIds[k].v - 1) : ~ToBeDropped(fetch.raw[i])
        /\ \A j, k \in 1..Len(outcome.what) : j < k => ReturnedIds[j].v < ReturnedIds[k].v

\* the first article of the answer was dropped: the two returned have the
\* ids 2 and 3
C25_Witness ==
    /\ FetchReturned
    /\ fetch.raw = <<RawFortyNine, RawComplete, RawFifty>>
    /\ fetch.max_articles = 100
    /\ Len(outcome.what) = 2
    /\ ReturnedIds = <<IntV(2), IntV(3)>>

\* no article was dropped: the ids are 1, 2, 3
C25_WitnessNoneDropped ==
    /\ FetchReturned
    /\ Len(outcome.what) = 3
    /\ ReturnedIds = <<IntV(1), IntV(2), IntV(3)>>

\* ------------------------------------------------------------------------
\* C26
\* ------------------------------------------------------------------------

\* a step in which a request goes to model #1, to model #2
AnalysisRequest == op = "analyze_batch" /\ calls' = calls + 1

ValidationRequest == op = "validate_batch" /\ calls' = calls + 1

\* the fetched articles: they are the same from the fetch to the end of the run
FetchedKept == articles' = articles

\* C26 (state part): while a run analyzes, nothing of the later stages
\* exists; while it validates, analyze_batch has returned one entry per
\* fetched article and nothing is combined; and what is combined is as long
\* as the list of validations, which has one entry per article.
C26_StageState ==
    /\ run.stage = "analyze"
          => /\ op = "analyze_batch"
             /\ Len(articles) > 0
             /\ analyses = <<>>
             /\ run.validations = <<>>
             /\ run.combined = <<>>
    /\ run.stage = "validate"
          => /\ op = "validate_batch"
             /\ Len(analyses) = Len(articles)
             /\ Len(results) <= Len(articles)
             /\ run.validations = <<>>
             /\ run.combined = <<>>
    /\ (run.stage \in {"done", "failed"} /\ run.combined # <<>>)
          => /\ Len(run.validations) = Len(articles)
             /\ Len(run.combined) = Len(articles)

\* C26: in a run, a request goes to model #2 only once analyze_batch has
\* returned an entry for every fetched article; no request goes to model #1
\* from then on (the run never goes back to an earlier stage); and the
\* results are combined only in the step that follows the return of
\* validate_batch with an entry for every pair.
C26_StagesInOrder ==
    /\ []C26_StageState
    /\ [][ValidationRequest
            => /\ run.stage = "validate"
               /\ Len(analyses) = Len(articles)]_vars
    /\ [][AnalysisRequest => run.stage = "analyze" /\ analyses = <<>>]_vars
    /\ [][run.stage = "validate" => run'.stage \in {"validate", "done", "failed"}]_vars
    /\ [][run.stage \in {"done", "failed"} => run'.stage = run.stage]_vars
    /\ [][run.stage \in {"analyze", "validate"} => FetchedKept]_vars
    /\ [][run.combined = <<>> /\ run'.combined # <<>>
            => /\ run.stage = "validate"
               /\ outcome.kind = "return"
               /\ Len(outcome.what) = Len(articles)
               /\ run'.validations = outcome.what]_vars

\* a run over two articles, the first of which failed analysis, has made its
\* first request to model #2
C26_Witness ==
    /\ run.stage = "validate"
    /\ Len(articles) = 2
    /\ FailedAt = {1}
    /\ idx = 1
    /\ calls = 1
    /\ results = <<>>

\* a run has combined the results of two articles
C26_WitnessCombined == RunDone /\ Len(run.combined) = 2 /\ Len(run.validations) = 2

\* ------------------------------------------------------------------------
\* C27
\* ------------------------------------------------------------------------

\* a batch call is under way or has ended
InBatch == op \in {"analyze_batch", "validate_batch"}

\* C27 (state part): the item a batch works on is the one after the entries
\* written so far, and before that item is entered no request was made for it
C27_OneItemInHand ==
    InBatch =>
        /\ idx = Len(results) + 1
        /\ ipc # "idle" => idx <= Len(articles)
        /\ ipc = "idle" => ireq = 0
        /\ ireq <= calls

\* C27 (step part): a request is made for the item in hand, whose
\* predecessors all have their entry and which has none yet; the batch moves
\* to the next item only in the step that writes the entry of the item in
\* hand, once its call has returned or raised; and a step makes at most one
\* request, which is answered within the step
C27_OneAtATime ==
    InBatch =>
        /\ calls' \in {calls, calls + 1}
        /\ calls' = calls + 1
              => /\ ipc = "loop"
                 /\ idx' = idx
                 /\ results' = results
                 /\ ireq' = ireq + 1
        /\ idx' # idx
              => /\ idx' = idx + 1
                 /\ ipc \in {"returned", "raised"}
                 /\ ipc' = "idle"
                 /\ Len(results') = idx
                 /\ results'[idx]["article_id"] = IdOf(articles[idx])
                 /\ calls' = calls

\* C27: analyze_batch and validate_batch work on their items in input order,
\* one at a time: no request is made for item k + 1 before item k has its
\* entry, a result or a sentinel, and no two requests are under way at once.
C27_InOrderOneAtATime == []C27_OneItemInHand /\ [][C27_OneAtATime]_vars

\* validate_batch has made a second request for its second pair, the first
\* pair having ended with a sentinel
C27_Witness ==
    /\ op = "validate_batch"
    /\ Len(articles) = 2
    /\ idx = 2
    /\ ipc = "loop"
    /\ ireq = 2
    /\ Len(results) = 1
    /\ IsSentinel(results[1])

\* analyze_batch has made a request for its second article after the first
\* succeeded
C27_WitnessAnalyze ==
    /\ op = "analyze_batch"
    /\ idx = 2
    /\ ipc = "loop"
    /\ ireq = 1
    /\ Len(results) = 1
    /\ ~IsSentinel(results[1])

\* ------------------------------------------------------------------------
\* C28
\* ------------------------------------------------------------------------

\* the positions after which the delay is due: those of the items written so
\* far that succeeded and are not the last of the batch
DelayDue ==
    {k \in 1..Len(results) : ~IsSentinel(results[k]) /\ k < Len(articles)}

\* C28 (state part): the delay was slept once after each item that succeeded
\* and is not the last, and after no other
C28_DelaysAsDue ==
    InBatch =>
        /\ {delays[i] : i \in 1..Len(delays)} = DelayDue
        /\ Len(delays) = Cardinality(DelayDue)
        /\ \A i, j \in 1..Len(delays) : i < j => delays[i] < delays[j]
        /\ Len(articles) \notin DelayDue

\* C28 (step part): the delay is slept in the step that writes the entry of
\* the item in hand, and only if that item succeeded and is not the last
C28_DelayAfterSuccess ==
    InBatch =>
        IF Len(results') = Len(results) + 1 /\ ipc = "returned" /\ idx < Len(articles)
        THEN delays' = Append(delays, idx)
        ELSE delays' = delays

\* C28: in analyze_batch and validate_batch the delay between requests is
\* slept after item k exactly when item k succeeded and is not the last item
\* of the batch: never after the last item, never after an item that ended
\* with a sentinel.
C28_DelayBetweenSuccesses == []C28_DelaysAsDue /\ [][C28_DelayAfterSuccess]_vars

\* validate_batch has returned for two pairs that both succeeded: the delay
\* was slept after the first only
C28_Witness ==
    /\ op = "validate_batch"
    /\ outcome.kind = "return"
    /\ Len(articles) = 2
    /\ ~IsSentinel(results[1])
    /\ ~IsSentinel(results[2])
    /\ delays = <<1>>

\* analyze_batch has returned for two articles, the first of which failed: no
\* delay was slept
C28_WitnessSentinel ==
    /\ op = "analyze_batch"
    /\ outcome.kind = "return"
    /\ Len(articles) = 2
    /\ IsSentinel(results[1])
    /\ ~IsSentinel(results[2])
    /\ delays = <<>>

\* ------------------------------------------------------------------------
\* C29
\* ------------------------------------------------------------------------

\* validate_analysis is at work, alone or inside validate_batch
Validating == op \in {"validate_analysis", "validate_batch"}

\* the failures of a pass the claim is about
TransportFailures == {"rate_limit", "timeout", "network"}

\* the seconds slept after a failure of kind f on pass i that is not the last
BackoffOf(f, i) == IF f = "rate_limit" THEN 2 ^ i ELSE 2

\* C29 (state part): while the call waits to make a request after a rate
\* limit, a timeout or a network error, that failure was on the pass before,
\* not the last one, and the pass to come is within retry_count
C29_RetryPending ==
    (Validating /\ ipc = "loop" /\ last.fail \in TransportFailures) =>
        /\ last.attempt < retry_count - 1
        /\ attempt = last.attempt + 1
        /\ attempt < retry_count
        /\ last.slept = BackoffOf(last.fail, last.attempt)
        /\ ival.kind = "none"

\* C29 (step part): a pass makes one request; a rate limit, timeout or network
\* error on a pass that is not the last is followed by its sleep and leaves
\* the call in the loop for the next pass, and on the last pass it raises
\* LLMValidatorError without any sleep
C29_PassOutcome ==
    (Validating /\ ipc = "loop" /\ attempt < retry_count) =>
        /\ ireq' = ireq + 1
        /\ calls' = calls + 1
        /\ last'.attempt = attempt
        /\ last'.fail \in TransportFailures =>
             IF attempt < retry_count - 1
             THEN /\ last'.slept = BackoffOf(last'.fail, attempt)
                  /\ islept' = Append(islept, BackoffOf(last'.fail, attempt))
                  /\ ipc' = "loop"
                  /\ attempt' = attempt + 1
                  /\ ival'.kind = "none"
             ELSE /\ last'.slept = 0
                  /\ islept' = islept
                  /\ ipc' = "raised"
                  /\ ival'.kind = "raise"
                  /\ ival'.what.type = "LLMValidatorError"

\* C29: in validate_analysis a 429 answer on a pass i (from 0) that is not the
\* last is followed by a sleep of 2^i seconds and another request, a timeout
\* or network exception on such a pass by a sleep of 2 seconds and another
\* request; on the last pass each of them raises LLMValidatorError with no
\* sleep.
C29_BackoffThenRetry == []C29_RetryPending /\ [][C29_PassOutcome]_vars

\* the first two of three passes were answered 429, slept 1 and 2 seconds, and
\* the third, a timeout, raised with no further sleep
C29_Witness ==
    /\ op = "validate_analysis"
    /\ retry_count = 3
    /\ ipc = "raised"
    /\ ireq = 3
    /\ islept = <<1, 2>>
    /\ last = [attempt |-> 2, fail |-> "timeout", slept |-> 0]
    /\ ival.what.type = "LLMValidatorError"

\* a network error on the first pass was followed by 2 seconds of sleep and
\* the second request, answered 429 on the last pass, raised
C29_WitnessRateLimitLast ==
    /\ op = "validate_analysis"
    /\ retry_count = 2
    /\ ipc = "raised"
    /\ ireq = 2
    /\ islept = <<2>>
    /\ last = [attempt |-> 1, fail |-> "rate_limit", slept |-> 0]
    /\ ival.what.type = "LLMValidatorError"

\* ------------------------------------------------------------------------
\* C30
\* ------------------------------------------------------------------------

\* analyze_article is at work, alone or inside analyze_batch
Analyzing == op \in {"analyze_article", "analyze_batch"}

\* the ways a pass of analyze_article fails
AttemptFailures == {"exception", "empty", "parse"}

\* C30 (state part): a call waiting to make a request after a failed pass
\* failed on the pass before, which was not the last; a call that raised out
\* of its loop failed on its last pass, after retry_count requests
C30_FailureState ==
    Analyzing =>
        /\ last.fail \in AttemptFailures \cup {"none"}
        /\ (ipc = "loop" /\ last.fail \in AttemptFailures) =>
               /\ last.attempt < retry_count - 1
               /\ attempt = last.attempt + 1
               /\ attempt < retry_count
               /\ ival.kind = "none"
        /\ (ipc = "raised" /\ ireq > 0) =>
               /\ last.fail \in AttemptFailures
               /\ last.attempt = retry_count - 1
               /\ ireq = retry_count

\* C30 (step part): a pass makes one request; if it fails in any of the three
\* ways on a pass that is not the last the call stays in the loop for the next
\* pass, and only on the last pass it raises LLMAnalyzerError
C30_PassOutcome ==
    (Analyzing /\ ipc = "loop" /\ attempt < retry_count) =>
        /\ ireq' = ireq + 1
        /\ last'.attempt = attempt
        /\ last'.fail \in AttemptFailures =>
             IF attempt < retry_count - 1
             THEN /\ ipc' = "loop"
                  /\ attempt' = attempt + 1
                  /\ ival'.kind = "none"
             ELSE /\ ipc' = "raised"
                  /\ ival'.kind = "raise"
                  /\ ival'.what.type = "LLMAnalyzerError"
        /\ last'.fail = "none" => ipc' = "returned"

\* C30: in analyze_article an exception of the model call, an empty or blocked
\* response and a response that does not parse each lead, on a pass that is
\* not the last, to a fresh model call and not to an error; only a failure on
\* the last pass ends the call with an error.
C30_EveryFailureRetried == []C30_FailureState /\ [][C30_PassOutcome]_vars

\* of three passes the second got a response that does not parse: the call is
\* still in its loop, about to make the third request
C30_Witness ==
    /\ op = "analyze_article"
    /\ retry_count = 3
    /\ ipc = "loop"
    /\ ireq = 2
    /\ attempt = 2
    /\ last.attempt = 1
    /\ last.fail = "parse"

\* the same after an empty response
C30_WitnessEmpty ==
    /\ op = "analyze_article"
    /\ retry_count = 3
    /\ ipc = "loop"
    /\ ireq = 2
    /\ attempt = 2
    /\ last.attempt = 1
    /\ last.fail = "empty"

\* the same after an exception of the model call
C30_WitnessException ==
    /\ op = "analyze_article"
    /\ retry_count = 3
    /\ ipc = "loop"
    /\ ireq = 2
    /\ attempt = 2
    /\ last.attempt = 1
    /\ last.fail = "exception"

\* two failed passes were each followed by another request, and the third,
\* failing to parse, ended the call with LLMAnalyzerError
C30_WitnessLastPass ==
    /\ op = "analyze_article"
    /\ retry_count = 3
    /\ ipc = "raised"
    /\ ireq = 3
    /\ Len(islept) = 2
    /\ last.attempt = 2
    /\ last.fail = "parse"
    /\ ival.what.type = "LLMAnalyzerError"

\* ------------------------------------------------------------------------
\* C31
\* ------------------------------------------------------------------------

\* the seconds a failure of kind f sleeps on pass i when the exponent counts
\* the passes of this item alone (0 for a clause that raises or returns)
SleepOnPass(f, i) ==
    IF op = "analyze_batch"
    THEN CASE f \in {"exception", "parse"} -> 2 ^ i
           [] f = "empty" -> 1
           [] OTHER -> 0
    ELSE CASE f = "rate_limit" -> 2 ^ i
           [] f = "status" -> 1
           [] f \in {"timeout", "network", "empty", "parse"} -> 2
           [] OTHER -> 0

\* C31 (state part): the item in hand of a batch has DefaultRetryCount passes
\* of its own: its pass counter is the number of requests made for it, the
\* sleep after a failed pass is that of this pass counted from 0, and it ends
\* with an error of its loop only after DefaultRetryCount requests of its own
C31_OwnBudget ==
    InBatch =>
        /\ retry_count = DefaultRetryCount
        /\ ireq <= DefaultRetryCount
        /\ ipc = "idle" => (attempt = 0 /\ ireq = 0 /\ islept = <<>>)
        /\ ipc = "loop" => (attempt = ireq /\ ireq < DefaultRetryCount)
        /\ ireq > 0 => last.attempt = ireq - 1
        /\ (ipc = "loop" /\ ireq > 0) => last.slept = SleepOnPass(last.fail, ireq - 1)
        /\ (ipc = "raised" /\ ireq > 0) => ireq = DefaultRetryCount

\* C31 (step part): an item is entered at pass 0 with no request made and no
\* sleep behind it, whatever the items before it used up, and no step changes
\* an entry already written
C31_FreshStart ==
    InBatch =>
        /\ (ipc = "idle" /\ ipc' # "idle") =>
               (attempt' = 0 /\ ireq' = 0 /\ islept' = <<>>)
        /\ Len(results') >= Len(results)
        /\ \A k \in 1..Len(results) : results'[k] = results[k]

\* C31: retry state is per item: in a batch every item starts with the full
\* budget of 3 attempts and backoff exponent 0, whatever earlier items used
\* up, and the entry recorded for an earlier item is not changed by the
\* processing of a later one.
C31_RetryStatePerItem == []C31_OwnBudget /\ [][C31_FreshStart]_vars

\* the first article used up its three attempts and got a sentinel; the second
\* has had three requests of its own, with sleeps of 1 and 2 seconds
C31_Witness ==
    /\ op = "analyze_batch"
    /\ Len(articles) = 2
    /\ idx = 2
    /\ analyze_preconditions(articles[1]).kind = "none"
    /\ IsSentinel(results[1])
    /\ ipc = "raised"
    /\ ireq = 3
    /\ islept = <<1, 2>>

\* the same in validate_batch: after a pair that failed three times the second
\* pair is validated on its third request
C31_WitnessValidate ==
    /\ op = "validate_batch"
    /\ Len(articles) = 2
    /\ idx = 2
    /\ validate_preconditions(articles[1], analyses[1]).kind = "none"
    /\ IsSentinel(results[1])
    /\ ipc = "returned"
    /\ ireq = 3

\* ------------------------------------------------------------------------
\* C32
\* ------------------------------------------------------------------------

\* two article records have the same fields with the same values
SameDict(a, b) ==
    /\ DOMAIN a = DOMAIN b
    /\ \A f \in DOMAIN a : SameValue(a[f], b[f])

\* the list of articles is what it was: as long, the same records in place
SameArticles(before, after) ==
    /\ Len(after) = Len(before)
    /\ \A k \in 1..Len(before) : SameDict(before[k], after[k])

\* the articles are there: handed to a call, or fetched by the run
Ingested == op # "run" \/ articles # <<>>

\* C32 (state part): the articles of a run are, at every stage after the
\* fetch and after the run has ended, the records the fetcher handed over,
\* field by field, and what is combined carries copies of their fields
C32_ArticlesAsFetched ==
    (run.stage # "none" /\ articles # <<>>) =>
        /\ \A k \in 1..Len(articles) :
              /\ articles[k]["id"].t = "int"
              /\ SameDict(articles[k], FetchedArticle(articles[k]["id"].v))
        /\ \A k \in 1..Len(run.combined) :
              /\ SameValue(run.combined[k].article.id, articles[k]["id"])
              /\ SameValue(run.combined[k].article.title, articles[k]["title"])
              /\ SameValue(run.combined[k].article.content, articles[k]["full_text"])

\* C32 (step part): no step of analyze_article, analyze_batch,
\* validate_analysis, validate_batch or of the run after its fetch changes
\* the list of articles or a field of one of them
C32_ArticlesUntouched == Ingested => SameArticles(articles, articles')

\* C32: article records are never modified after ingestion: analyze,
\* analyze_batch, validate, validate_batch, combine and statistics leave every
\* field of every article, and the list itself, unchanged, on success and on
\* failure.
C32_ArticlesNeverModified == []C32_ArticlesAsFetched /\ [][C32_ArticlesUntouched]_vars

\* a run over three articles has returned, one of them analysed and one
\* failed, with everything combined and counted
C32_Witness ==
    /\ RunDone
    /\ Len(articles) = 3
    /\ Len(run.combined) = 3
    /\ run.statistics.total_articles = 3
    /\ FailedAt # {}
    /\ FailedAt # 1..3

\* a run has failed after its articles were analysed and validated
C32_WitnessFailed ==
    /\ op = "run"
    /\ run.stage = "failed"
    /\ Len(articles) > 0
    /\ Len(analyses) = Len(articles)
    /\ outcome.kind = "raise"

\* ------------------------------------------------------------------------
\* C33
\* ------------------------------------------------------------------------

RECURSIVE SumOver(_, _)
\* the sum of the counts f gives to the keys in S
SumOver(f, S) ==
    IF S = {} THEN 0
    ELSE LET k == CHOOSE x \in S : TRUE
         IN  f[k] + SumOver(f, S \ {k})

\* the run has calculated its statistics
HasStatistics == op = "run" /\ run.statistics.total_articles # NoStatistics.total_articles

\* C33: the statistics of a run partition its combined results: positive +
\* negative + neutral = total_articles, valid + invalid = total_articles, the
\* tone counts sum to total_articles, and tone_distribution has a key only for
\* a tone that occurs at least once.
C33_StatisticsPartition ==
    HasStatistics =>
        LET st == run.statistics
        IN  /\ st.total_articles = Len(run.combined)
            /\ DOMAIN st.sentiment_distribution = {"positive", "negative", "neutral"}
            /\ st.sentiment_distribution["positive"] + st.sentiment_distribution["negative"]
                  + st.sentiment_distribution["neutral"] = st.total_articles
            /\ st.validation_stats.valid + st.validation_stats.invalid = st.total_articles
            /\ SumOver(st.tone_distribution, DOMAIN st.tone_distribution) = st.total_articles
            /\ \A t \in DOMAIN st.tone_distribution :
                  /\ st.tone_distribution[t] >= 1
                  /\ \E k \in 1..Len(run.combined) : run.combined[k].analysis.tone = StrV(t)
            /\ \A k \in 1..Len(run.combined) :
                  run.combined[k].analysis.tone.v \in DOMAIN st.tone_distribution

\* a run over three articles, one positive, one negative and one failed, two
\* of them with the same tone, one validation refused: every count is split
C33_Witness ==
    /\ RunDone
    /\ run.statistics.total_articles = 3
    /\ run.statistics.sentiment_distribution["positive"] = 1
    /\ run.statistics.sentiment_distribution["negative"] = 1
    /\ run.statistics.sentiment_distribution["neutral"] = 1
    /\ Cardinality(DOMAIN run.statistics.tone_distribution) = 3
    /\ run.statistics.validation_stats.valid = 2
    /\ run.statistics.validation_stats.invalid = 1

\* two of three articles share a tone: two keys, counts 2 and 1
C33_WitnessSharedTone ==
    /\ RunDone
    /\ run.statistics.total_articles = 3
    /\ Cardinality(DOMAIN run.statistics.tone_distribution) = 2

\* ------------------------------------------------------------------------
\* C34
\* ------------------------------------------------------------------------

\* a single call of analyze_article or validate_analysis has ended
SingleCallEnded ==
    /\ op \in {"analyze_article", "validate_analysis"}
    /\ outcome.kind # "none"

\* the inputs of the single call passed the tests made before the retry loop
PassedPreconditions ==
    IF op = "analyze_article"
    THEN analyze_preconditions(articles[1]).kind = "none"
    ELSE validate_preconditions(articles[1], analyses[1]).kind = "none"

\* what the call returned is a result record and not None
ReturnedRecord ==
    /\ outcome.kind = "return"
    /\ "t" \notin DOMAIN outcome.what
    /\ "article_id" \in DOMAIN outcome.what

\* C34 as stated: for every retry_count >= 0, a call of analyze_article or
\* validate_analysis whose inputs pass the preconditions either returns a
\* complete result record or raises the error of its stage; it never returns
\* without a result, retry_count 0 included.
C34_RecordOrStageError ==
    (SingleCallEnded /\ PassedPreconditions) =>
        \/ ReturnedRecord
        \/ outcome.kind = "raise" /\ outcome.what.type = StageError

\* the same for the calls that are given at least one attempt, which holds
C34_RecordOrStageErrorWithAttempts ==
    (SingleCallEnded /\ PassedPreconditions /\ retry_count >= 1) =>
        \/ ReturnedRecord /\ ireq >= 1
        \/ outcome.kind = "raise" /\ outcome.what.type = StageError /\ ireq = retry_count

\* analyze_article with retry_count 0 on a valid article has returned None
\* without a request
C34_ReturnedNone ==
    /\ op = "analyze_article"
    /\ retry_count = 0
    /\ PassedPreconditions
    /\ outcome.kind = "return"
    /\ "t" \in DOMAIN outcome.what
    /\ outcome.what.t = "none"
    /\ ireq = 0

\* ------------------------------------------------------------------------
\* C35
\* ------------------------------------------------------------------------

\* the run is in its validation stage
RunValidating == run.stage = "validate" /\ op = "validate_batch"

\* C35 (state part): in the validation stage of a run every pair passes the
\* preconditions of validate_analysis, the pairs of a failed analysis too, a
\* pair that has ended has had a request, and the requests made are at least
\* as many as the pairs dealt with
C35_EveryPairRequested ==
    RunValidating =>
        /\ Len(analyses) = Len(articles)
        /\ \A k \in 1..Len(articles) :
              validate_preconditions(articles[k], analyses[k]).kind = "none"
        /\ ipc \in {"returned", "raised"} => ireq >= 1
        /\ calls >= Len(results) + (IF ipc \in {"returned", "raised"} THEN 1 ELSE 0)
        /\ outcome.kind = "return" => (Len(outcome.what) = Len(articles)
                                       /\ calls >= Len(articles))

\* C35 (step part): validate_batch writes the entry of a pair only after a
\* request was made for that pair
C35_EntryAfterRequest ==
    (RunValidating /\ Len(results') = Len(results) + 1) => ireq >= 1

\* C35: in a run validation is attempted for every article: validate_batch
\* makes at least one request to model #2 for each pair, the pairs whose
\* analysis is the "Analysis failed" sentinel included; a failed analysis
\* never makes the validation of its article be skipped or fail its
\* preconditions.
C35_ValidationAlwaysAttempted == []C35_EveryPairRequested /\ [][C35_EntryAfterRequest]_vars

\* the pair in hand has a failed analysis, and its validation has returned
\* from a request to model #2
C35_Witness ==
    /\ RunValidating
    /\ idx <= Len(analyses)
    /\ IsSentinel(analyses[idx])
    /\ analyses[idx]["gist"] = StrV("Analysis failed")
    /\ ipc = "returned"
    /\ ireq >= 1

\* validate_batch has returned in a run all of whose analyses failed, after
\* at least one request for each pair
C35_WitnessAllFailed ==
    /\ RunValidating
    /\ outcome.kind = "return"
    /\ Len(articles) = 3
    /\ FailedAt = 1..3
    /\ calls >= 3

\* ------------------------------------------------------------------------
\* C36
\* ------------------------------------------------------------------------

\* the article has a full_text that is a string of at least 30 characters
\* once trimmed: what analyze_article asks of it
Analyzable(article) ==
    /\ "full_text" \in DOMAIN article
    /\ article["full_text"].t = "str"
    /\ Len(Strip(article["full_text"].v)) >= 30
    /\ analyze_preconditions(article).kind = "none"

\* the run analyzes what fetch_articles returned
RunAnalyzing == run.stage = "analyze" /\ op = "analyze_batch"

\* C36 (state part): every article fetch_articles returns, and so every
\* article a run hands to analyze_batch, passes the tests analyze_article
\* makes before its retry loop; an article of the run whose analysis raised
\* has had its requests, and every sentinel carries the error of the loop
C36_FetchedAnalyzable ==
    /\ FetchReturned => \A k \in 1..Len(outcome.what) : Analyzable(outcome.what[k])
    /\ RunAnalyzing =>
          /\ Len(articles) > 0
          /\ \A k \in 1..Len(articles) : Analyzable(articles[k])
          /\ ipc = "raised" =>
                /\ ireq = retry_count
                /\ ival.what.type = "LLMAnalyzerError"
                /\ last.fail \in {"exception", "empty", "parse"}
          /\ \A k \in 1..Len(results) :
                IsSentinel(results[k]) =>
                    StartsWith(results[k]["error"].v, "Failed to analyze article ")

\* C36 (step part): entered for an article of the run, analyze_article goes
\* on to its retry loop
C36_EntersLoop == (RunAnalyzing /\ ipc = "idle" /\ ipc' # "idle") => ipc' = "loop"

\* C36: every article the fetcher hands to the pipeline satisfies the
\* precondition of the analysis (full_text present, of trimmed length >= 30),
\* so in a run analyze_article never takes its invalid-input path and every
\* sentinel analysis stems from a failed model call or parse.
C36_NoInvalidInputInRun == []C36_FetchedAnalyzable /\ [][C36_EntersLoop]_vars

\* the news service answered with a short article and a usable one; the run
\* analyzes the one article fetched, which failed after three requests
C36_Witness ==
    /\ RunAnalyzing
    /\ Len(articles) = 1
    /\ articles[1]["id"] = IntV(2)
    /\ Len(results) = 1
    /\ IsSentinel(results[1])
    /\ outcome.kind = "return"

\* fetch_articles has returned one article of exactly 50 characters out of an
\* answer that began with the short one
C36_WitnessFetched ==
    /\ FetchReturned
    /\ Len(fetch.raw) >= 2
    /\ "content" \notin DOMAIN fetch.raw[1]
    /\ Len(outcome.what) = 1
    /\ Len(outcome.what[1]["full_text"].v) = 50

\* ------------------------------------------------------------------------
\* C37
\* ------------------------------------------------------------------------

\* the validation records at hand: what validate_analysis returned, and the
\* entries validate_batch has written
ValidationsReturned ==
    (IF op = "validate_analysis" /\ outcome.kind = "return" /\ "t" \notin DOMAIN outcome.what
     THEN {outcome.what} ELSE {})
    \cup (IF op = "validate_batch" THEN {results[k] : k \in 1..Len(results)} ELSE {})

\* C37 as stated: every validation returned by validate_analysis or
\* validate_batch has an is_valid that is a boolean, whatever JSON model #2
\* answered, so only the boolean true is counted as valid in the statistics.
C37_IsValidIsBoolean ==
    \A v \in ValidationsReturned :
        /\ v["is_valid"].t = "bool"
        /\ Truthy(v["is_valid"]) => v["is_valid"] = BoolV(TRUE)

\* validate_analysis has returned a record whose is_valid is the string
\* "false", which the statistics count as valid
C37_StringCountedValid ==
    /\ op = "validate_analysis"
    /\ outcome.kind = "return"
    /\ "t" \notin DOMAIN outcome.what
    /\ outcome.what["is_valid"].t = "str"
    /\ outcome.what["is_valid"].v = "false"
    /\ Truthy(outcome.what["is_valid"])

\* an is_valid that is no boolean is the value model #2 gave the key in a
\* JSON object: answers that are no JSON and objects without the key end
\* with a boolean
C37_BooleanUnlessAnswered ==
    \A v \in ValidationsReturned :
        v["is_valid"].t # "bool" =>
            /\ JsonLoads(v["raw_validation"].v).ok
            /\ JsonLoads(v["raw_validation"].v).doc.t = "dict"
            /\ "is_valid" \in DOMAIN JsonLoads(v["raw_validation"].v).doc.v
            /\ SameValue(v["is_valid"], JsonLoads(v["raw_validation"].v).doc.v["is_valid"])

\* ------------------------------------------------------------------------
\* C38
\* ------------------------------------------------------------------------

\* the run has ended: it has returned its result or raised
RunEnded == op = "run" /\ run.stage \in {"done", "failed"} /\ outcome.kind # "none"

\* the run is inside one of its two batches, which has not returned yet
InRunBatch == run.stage \in {"analyze", "validate"} /\ outcome.kind = "none"

\* the steps one item of a batch takes at most: it is entered, retry_count
\* passes are made, its entry is written
ItemSteps == retry_count + 2

\* the steps the item in hand may still take
ItemStepsLeft ==
    CASE ipc = "idle" -> ItemSteps
      [] ipc = "loop" -> (retry_count - attempt) + 1
      [] OTHER -> 1

\* the steps a batch over n items takes at most, its return included
BatchSteps(n) == n * ItemSteps + 1

\* the steps the batch at work may still take
BatchStepsLeft ==
    IF outcome.kind # "none" THEN 0
    ELSE IF idx > Len(articles) THEN 1
    ELSE (Len(articles) - idx) * ItemSteps + ItemStepsLeft + 1

\* the steps the run may still take: a number that is never negative
StepsLeft ==
    CASE run.stage = "start" -> 2 * BatchSteps(MaxFetched) + 3
      [] run.stage = "analyze" -> BatchStepsLeft + BatchSteps(Len(articles)) + 2
      [] run.stage = "validate" -> BatchStepsLeft + 1
      [] OTHER -> 0

\* C38 (requests): the requests made in the stage the run is in, or ended
\* in, are at most three for each article fetched, three for the item in
\* hand, and the loops stay within the list and within retry_count
C38_RequestsBounded ==
    run.stage # "none" =>
        /\ retry_count = DefaultRetryCount
        /\ calls <= 3 * Len(articles)
        /\ ireq <= 3
        /\ InRunBatch => calls <= 3 * idx
        /\ idx <= Len(articles) + 1
        /\ attempt <= retry_count
        /\ StepsLeft >= 0
        /\ RunEnded <=> StepsLeft = 0

\* C38 (no halt before the end): a run that has not ended has a step to take
C38_NeverStuck ==
    (run.stage # "none" /\ ~RunEnded) =>
        \/ run.stage = "start" /\ op = "run" /\ outcome.kind = "none"
        \/ InRunBatch /\ ipc = "idle" /\ idx <= Len(articles)
        \/ InRunBatch /\ ipc = "idle" /\ idx > Len(articles)
                      /\ Len(analyses) = (IF run.stage = "validate" THEN Len(articles) ELSE 0)
        \/ InRunBatch /\ ipc = "loop" /\ attempt < retry_count
        \/ InRunBatch /\ ipc \in {"returned", "raised"}
        \/ run.stage = "analyze" /\ op = "analyze_batch" /\ outcome.kind = "return"
        \/ run.stage = "validate" /\ op = "validate_batch" /\ outcome.kind # "none"

\* C38 (every step counts): each step of a run brings it nearer its end
C38_StepsRunOut == run.stage # "none" => StepsLeft' < StepsLeft

\* C38: provided every external call returns or raises, a run over n fetched
\* articles ends, with its result or with an error, after at most 3n requests
\* to model #1 and at most 3n to model #2: no retry loop and no batch loop
\* goes on for ever. (Every step lowers a number that is never negative, and
\* a run that has not ended always has a step to take.)
C38_RunTerminates ==
    []C38_RequestsBounded /\ []C38_NeverStuck /\ [][C38_StepsRunOut]_vars

\* a run over three articles has returned after nine requests to model #2:
\* every pair used up its three attempts
C38_Witness ==
    /\ RunDone
    /\ RunEnded
    /\ Len(articles) = 3
    /\ calls = 9
    /\ StepsLeft = 0

\* analyze_batch has returned in a run over three articles after nine
\* requests to model #1
C38_WitnessAnalyze ==
    /\ run.stage = "analyze"
    /\ outcome.kind = "return"
    /\ Len(articles) = 3
    /\ calls = 9
    /\ \A k \in 1..3 : IsSentinel(outcome.what[k])

====
